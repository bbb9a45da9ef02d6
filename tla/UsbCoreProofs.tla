--------------------------- MODULE UsbCoreProofs ---------------------------
(***************************************************************************)
(* The two halves of libusb's core, UsbInterfaces and UsbDevices, for any  *)
(* number of threads, interfaces, contexts, devices and handles.           *)
(***************************************************************************)
EXTENDS UsbInterfaces, UsbDevices, FiniteSetTheorems, TLAPS

-----------------------------------------------------------------------------
(***************************************************************************)
(* UsbInterfaces for any number of threads and interfaces: the claimed     *)
(* bits agree with the kernel, and the cached configuration with the       *)
(* device's.                                                               *)
(*                                                                         *)
(* Between calls a disagreement needs somebody to answer for it.  An       *)
(* interface bound but not marked is about to be marked by the holder of   *)
(* the lock (Bound); one marked but not bound is about to be unmarked, or  *)
(* a reset has given it up and will take it back (Answers), or a detach    *)
(* took it between its two ioctls (Had).  When nobody is in a call, nobody *)
(* answers, so there is no disagreement.                                   *)
(*                                                                         *)
(* What was asked of the kernel is stored later: unless an answer was      *)
(* overtaken, everything that is still to be stored is the device's        *)
(* configuration, and so is the cache once nothing is (ConfigInv).         *)
(***************************************************************************)

(* The lock belongs to the thread whose place in the code holds it. *)
Locked(t) ==
  \/ th[t].op \in {"claim", "release"}
  \/ th[t].op = "reset" /\ th[t].pc # "giveup"

LockInv == \A t \in Threads : Locked(t) <=> hlock = t

Claimed(t, i) == th[t].op = "claim" /\ th[t].pc = "mark" /\ th[t].r = "ok" /\ th[t].i = i

Released(t, i) ==
  th[t].op = "release" /\ th[t].pc # "ioctl" /\ th[t].r = "ok" /\ th[t].i = i

\* A reset that has not come to i to take it back, or is at it.
Retaking(t, i) ==
  /\ th[t].op = "reset"
  /\ th[t].pc \in {"reclaim", "disconnect", "detached"}
  /\ i >= th[t].next

\* A reset that has given up i and has not taken it back.
GaveUp(t, i) ==
  \/ th[t].op = "reset" /\ th[t].pc = "giveup" /\ i < th[t].next
  \/ th[t].op = "reset" /\ th[t].pc = "reset"
  \/ Retaking(t, i)

Answers(t, i) == Released(t, i) \/ GaveUp(t, i)

\* Nothing but a claim has bound an interface; no reset was refused.
Tracked == present /\ "late" \notin seen
Trusted == present /\ "reset_failed" \notin seen

\* Bound through this handle, or taken from it by a detach.
Had(i) == owner[i] = "usbfs" \/ i \in snatched

(* What a call relies on while it holds the lock. *)
IfaceCallInv == \A t \in Threads :
  /\ th[t].op = "claim" => th[t].i \notin claimed
  /\ th[t].op = "release" => th[t].i \in claimed
  /\ th[t].op = "reset" /\ th[t].pc = "reset" => th[t].next = MaxInterfaces
  /\ th[t].op = "reset" /\ th[t].pc = "unlock" => ~Trusted
  /\ th[t].op = "reset" /\ th[t].pc \in {"disconnect", "detached"} => th[t].next \in claimed
  /\ present => \A i \in Ifaces : Claimed(t, i) => Had(i)
  /\ Tracked => \A i \in Ifaces : Released(t, i) \/ Retaking(t, i) => owner[i] # "usbfs"

Bound == Tracked => \A i \in Ifaces :
  owner[i] = "usbfs" /\ i \notin claimed => \E t \in Threads : Claimed(t, i)

Marked == Trusted => \A i \in claimed :
  ~Had(i) => \E t \in Threads : Answers(t, i)

(* What is about to be cached, or is when nothing is, is right. *)
ConfigInv == present /\ ~stale =>
  /\ \A t \in Threads : Holding(t) => Selected(th[t].i) = config
  /\ (\A t \in Threads : ~Holding(t)) => Selected(cached) = config

IfaceInv == IfaceTypeOK /\ LockInv /\ IfaceCallInv /\ Bound /\ Marked /\ ConfigInv

Codes == {"ok", "no_device", "busy", "other", "not_found"}
Bindings == {"free", "driver", "usbfs", "other"}

-----------------------------------------------------------------------------
(* The call a thread is in. *)

(* The records a call begins and ends with are calls. *)
LEMMA CallTypes ==
    ASSUME InterfacesAssumption
    PROVE  /\ \A r \in Codes : [Idling EXCEPT !.r = r] \in Calls
           /\ \A op \in {"claim", "release", "setalt", "reset", "detach", "setconfig", "getconfig"},
                 pc \in {"ioctl", "disconnect", "giveup", "cache"}, i \in Int :
                [op |-> op, pc |-> pc, i |-> i, r |-> "ok", next |-> 0] \in Calls
  BY DEF InterfacesAssumption, Calls, Codes, Idling

Pcs == {"idle", "ioctl", "disconnect", "detached", "attach", "mark",
        "giveup", "reset", "reclaim", "unlock", "cache"}

(* One thread's call is another call, the others are as they were. *)
LEMMA CallPut ==
    ASSUME NEW f \in [Threads -> Calls], NEW t \in Threads, NEW e \in Calls,
           NEW g, g = [f EXCEPT ![t] = e]
    PROVE  /\ g \in [Threads -> Calls] /\ g[t] = e
           /\ \A u \in Threads : u # t => g[u] = f[u]
  OBVIOUS

(* A call moves on: to its next place, with or without an answer. *)
LEMMA CallMoved ==
    ASSUME NEW f \in [Threads -> Calls], NEW t \in Threads, NEW pc \in Pcs, NEW g,
           g = [f EXCEPT ![t].pc = pc]
    PROVE  /\ g \in [Threads -> Calls]
           /\ g[t].op = f[t].op /\ g[t].i = f[t].i /\ g[t].pc = pc /\ g[t].r = f[t].r
           /\ \A u \in Threads : u # t => g[u] = f[u]
<1>1. PICK c \in Calls : c = f[t]
  OBVIOUS
<1>2. PICK e : e = [c EXCEPT !.pc = pc]
  OBVIOUS
<1>3. e \in Calls /\ e.op = c.op /\ e.i = c.i /\ e.pc = pc /\ e.r = c.r
  BY <1>2 DEF Calls, Pcs
<1>4. g = [f EXCEPT ![t] = e]
  BY <1>1, <1>2
<1> QED
  BY <1>1, <1>3, <1>4, CallPut

Answering(g, f, t, pc, r) == g = [f EXCEPT ![t].pc = pc, ![t].r = r]

LEMMA CallAnswered ==
    ASSUME NEW f \in [Threads -> Calls], NEW t \in Threads, NEW pc \in Pcs,
           NEW r \in Codes, NEW g, Answering(g, f, t, pc, r)
    PROVE  /\ g \in [Threads -> Calls]
           /\ g[t].op = f[t].op /\ g[t].i = f[t].i /\ g[t].pc = pc /\ g[t].r = r
           /\ \A u \in Threads : u # t => g[u] = f[u]
<1>1. PICK c \in Calls : c = f[t]
  OBVIOUS
<1>2. PICK e : e = [c EXCEPT !.pc = pc, !.r = r]
  OBVIOUS
<1>3. e \in Calls /\ e.op = c.op /\ e.i = c.i /\ e.pc = pc /\ e.r = r
  BY <1>2 DEF Calls, Pcs, Codes
<1>4. g[t] = [f[t] EXCEPT !.pc = pc, !.r = r]
  BY DEF Answering
<1>5. DOMAIN g = Threads /\ \A u \in Threads : u # t => g[u] = f[u]
  BY DEF Answering
<1>6. g = [u \in Threads |-> g[u]]
  BY DEF Answering
<1>7. g[t] = e
  BY <1>1, <1>2, <1>4
<1>8. g \in [Threads -> Calls]
  BY <1>3, <1>5, <1>6, <1>7
<1> QED
  BY <1>1, <1>3, <1>5, <1>7, <1>8

(* What an ioctl leaves bound is one of the bindings, and it touches one
   interface. *)
LEMMA IoctlTypes ==
    ASSUME IfaceInv, NEW i \in Ifaces,
           NEW k \in {claim_interface(i), release_interface(i), disconnect_and_claim(i),
                      disconnect(i), op_attach_kernel_driver(i)}
    PROVE  /\ k.r \in Codes
           /\ k.owner \in [Ifaces -> Bindings]
           /\ \A j \in Ifaces : j # i => k.owner[j] = owner[j]
  BY DEF IfaceInv, IfaceTypeOK, Codes, Bindings, claim_interface, release_interface,
         disconnect_and_claim, disconnect, op_attach_kernel_driver

(* USBDEVFS_DISCONNECT unbinds the interface, or does nothing; what it takes
   from usbfs is remembered. *)
LEMMA DisconnectKeeps ==
    ASSUME IfaceInv, NEW i \in Ifaces, owner' = disconnect(i).owner, Snatch(i)
    PROVE  /\ owner' \in [Ifaces -> Bindings] /\ snatched' \subseteq Ifaces
           /\ disconnect(i).r \in Codes
           /\ \A j \in Ifaces : j # i => owner'[j] = owner[j]
           /\ owner'[i] = owner[i] \/ owner'[i] = "free"
           /\ \A j \in Ifaces : Had(j) => Had(j)'
<1>1. snatched \subseteq snatched' /\ snatched' \subseteq Ifaces
  BY DEF Snatch, IfaceInv, IfaceTypeOK
<1>2. /\ disconnect(i).owner \in [Ifaces -> Bindings] /\ disconnect(i).r \in Codes
      /\ \A j \in Ifaces : j # i => disconnect(i).owner[j] = owner[j]
  BY IoctlTypes
<1>3. owner'[i] = owner[i] \/ owner'[i] = "free"
  BY DEF disconnect, IfaceInv, IfaceTypeOK
<1>4. owner[i] = "usbfs" => i \in snatched'
  BY DEF Snatch
<1> QED
  BY <1>1, <1>2, <1>3, <1>4 DEF Had

(* The ioctl that claims binds the interface, which is then no longer one
   that was taken away, or does nothing. *)
LEMMA ClaimKeeps ==
    ASSUME IfaceInv, NEW i \in Ifaces,
           NEW k \in {claim_interface(i), disconnect_and_claim(i)},
           owner' = k.owner, Regain(i, k.r)
    PROVE  /\ owner' \in [Ifaces -> Bindings] /\ snatched' \subseteq Ifaces
           /\ k.r \in Codes
           /\ \A j \in Ifaces : j # i => owner'[j] = owner[j]
           /\ k.r = "ok" => owner'[i] = "usbfs"
           /\ k.r # "ok" => owner'[i] = owner[i]
           /\ \A j \in Ifaces : Had(j) => Had(j)'
<1>1. /\ snatched' \subseteq Ifaces /\ snatched \subseteq snatched' \cup {i}
      /\ k.r # "ok" => snatched' = snatched
  BY DEF Regain, IfaceInv, IfaceTypeOK
<1>2. /\ k.owner \in [Ifaces -> Bindings] /\ k.r \in Codes
      /\ \A j \in Ifaces : j # i => k.owner[j] = owner[j]
  BY IoctlTypes
<1>3. /\ k.r = "ok" => owner'[i] = "usbfs"
      /\ k.r # "ok" => owner'[i] = owner[i]
  BY DEF claim_interface, disconnect_and_claim, IfaceInv, IfaceTypeOK
<1> QED
  BY <1>1, <1>2, <1>3 DEF Had

-----------------------------------------------------------------------------
(* Beginning and ending without a lock. *)

(* A call that ends without a lock leaves nothing to answer for. *)
LEMMA ReturnStep ==
    ASSUME InterfacesAssumption, IfaceInv, NEW t \in Threads, NEW r \in Codes,
           th[t].op \in {"idle", "setalt", "detach"}, Return(t, r),
           owner' \in [Ifaces -> Bindings], snatched' \subseteq Ifaces,
           \A i \in Ifaces : owner'[i] = "usbfs" => owner[i] = "usbfs" \/ "late" \in seen',
           \A i \in Ifaces : Had(i) => Had(i)',
           seen \subseteq seen',
           UNCHANGED <<claimed, auto, hlock, present, oldKernel, conf>>
    PROVE  IfaceInv'
<1> DEFINE c == [Idling EXCEPT !.r = r]
<1>1. c \in Calls /\ c.op = "idle"
  BY CallTypes DEF Idling
<1>2. th' = [th EXCEPT ![t] = c]
  BY DEF Return
<1> HIDE DEF c
<1>3. IfaceTypeOK'
  BY <1>1, <1>2 DEF IfaceInv, IfaceTypeOK, Bindings, conf
<1>4. /\ th'[t].op = "idle"
      /\ \A u \in Threads : u # t => th'[u] = th[u]
      /\ th[t].op \notin {"claim", "release", "reset", "setconfig", "getconfig"}
  BY <1>1, <1>2 DEF IfaceInv, IfaceTypeOK
<1>5. LockInv'
  BY <1>4 DEF IfaceInv, LockInv, Locked
<1>6. IfaceCallInv'
  BY <1>4 DEF IfaceInv, IfaceCallInv, Claimed, Released, Retaking, Trusted, Tracked, Had
<1>7. Bound'
  BY <1>4 DEF IfaceInv, Bound, Claimed, Tracked
<1>8. Marked'
  BY <1>4 DEF IfaceInv, IfaceTypeOK, Marked, Released, GaveUp, Retaking, Answers, Trusted, Had
<1>9. ConfigInv'
  BY <1>4 DEF IfaceInv, ConfigInv, Holding, conf
<1> QED
  BY <1>3, <1>5, <1>6, <1>7, <1>8, <1>9 DEF IfaceInv

(* A call that begins has done nothing yet. *)
LEMMA BeginStep ==
    ASSUME InterfacesAssumption, IfaceInv, NEW t \in Threads, NEW i \in Ifaces,
           NEW op \in {"claim", "release", "setalt", "detach"},
           NEW pc \in {"ioctl", "disconnect"}, pc = "disconnect" => op = "detach",
           th[t].op = "idle", Begin(t, op, pc, i),
           op = "claim" => i \notin claimed,
           op = "release" => i \in claimed,
           IF op \in {"setalt", "detach"} THEN hlock' = hlock ELSE hlock = Nobody /\ hlock' = t,
           UNCHANGED <<claimed, auto, kernel, history, conf>>
    PROVE  IfaceInv'
<1> DEFINE c == [op |-> op, pc |-> pc, i |-> i, r |-> "ok", next |-> 0]
<1>1. c \in Calls /\ c.op = op /\ c.pc = pc /\ c.i = i
  BY CallTypes DEF Ifaces, InterfacesAssumption
<1>2. th' = [th EXCEPT ![t] = c]
  BY DEF Begin
<1> HIDE DEF c
<1>3. IfaceTypeOK'
  BY <1>1, <1>2 DEF IfaceInv, IfaceTypeOK, kernel, history, conf
<1>4. /\ th'[t].op = op /\ th'[t].pc = pc /\ th'[t].i = i
      /\ \A u \in Threads : u # t => th'[u] = th[u]
  BY <1>1, <1>2 DEF IfaceInv, IfaceTypeOK
<1>5. LockInv'
  BY <1>4 DEF IfaceInv, LockInv, Locked, InterfacesAssumption
<1>6. IfaceCallInv'
  BY <1>4 DEF IfaceInv, IfaceCallInv, Claimed, Released, Retaking, Trusted, Tracked, Had, kernel, history
<1>7. Bound'
  BY <1>4 DEF IfaceInv, Bound, Claimed, Tracked, kernel, history
<1>8. Marked'
  BY <1>4 DEF IfaceInv, Marked, Released, GaveUp, Retaking, Answers, Trusted, Had, kernel, history
<1>9. ConfigInv'
  BY <1>4 DEF IfaceInv, ConfigInv, Holding, kernel, history, conf
<1> QED
  BY <1>3, <1>5, <1>6, <1>7, <1>8, <1>9 DEF IfaceInv

(* A call that ends hands the lock back and no longer answers for anything. *)
LEMMA EndStep ==
    ASSUME InterfacesAssumption, IfaceInv, NEW t \in Threads, Locked(t),
           hlock' = Nobody, Return(t, th[t].r),
           claimed' \subseteq Ifaces,
           \A i \in Ifaces : Claimed(t, i) => i \in claimed',
           \A i \in Ifaces : Answers(t, i) => i \notin claimed',
           \A i \in Ifaces : (i \in claimed' <=> i \in claimed)
             \/ Claimed(t, i) \/ Released(t, i),
           UNCHANGED <<auto, kernel, history, conf>>
    PROVE  IfaceInv'
<1> DEFINE c == [Idling EXCEPT !.r = th[t].r]
<1>1. c \in Calls /\ c.op = "idle"
  BY CallTypes DEF Idling, IfaceInv, IfaceTypeOK, Calls, Codes
<1>2. th' = [th EXCEPT ![t] = c]
  BY DEF Return
<1> HIDE DEF c
<1>3. IfaceTypeOK'
  BY <1>1, <1>2 DEF IfaceInv, IfaceTypeOK, kernel, history, conf
<1>4. /\ th'[t].op = "idle"
      /\ \A u \in Threads : u # t => th'[u] = th[u]
      /\ ~Holding(t)
      /\ \A u \in Threads : u # t => ~Locked(u)
  BY <1>1, <1>2 DEF IfaceInv, IfaceTypeOK, LockInv, Locked, Holding
<1>5. LockInv'
  BY <1>4 DEF IfaceInv, LockInv, Locked, InterfacesAssumption
<1>6. IfaceCallInv'
  BY <1>4 DEF IfaceInv, IfaceCallInv, Claimed, Released, Retaking, Locked, Trusted, Tracked, Had, kernel, history
<1>7. Bound'
  BY <1>4 DEF IfaceInv, IfaceCallInv, Bound, Claimed, Released, Locked, Trusted, Tracked, Had, kernel, history
<1>8. Marked'
  <2> SUFFICES ASSUME Trusted, NEW i \in claimed', ~Had(i)
               PROVE  \E u \in Threads : Answers(u, i)'
    BY DEF Marked, Trusted, Had, kernel, history
  <2>1. i \in Ifaces /\ i \in claimed
    BY DEF IfaceInv, IfaceCallInv, Answers, Trusted
  <2>2. PICK u \in Threads : Answers(u, i)
    BY <2>1 DEF IfaceInv, Marked
  <2> QED
    BY <1>4, <2>1, <2>2 DEF Answers, Released, GaveUp, Retaking
<1>9. ConfigInv'
  BY <1>4 DEF IfaceInv, ConfigInv, Holding, kernel, history, conf
<1> QED
  BY <1>3, <1>5, <1>6, <1>7, <1>8, <1>9 DEF IfaceInv

(* The kernel and the other processes leave usbfs's bindings alone. *)
LEMMA WorldStep ==
    ASSUME InterfacesAssumption, IfaceInv,
           owner' \in [Ifaces -> Bindings],
           present' \in BOOLEAN, auto' \in BOOLEAN,
           present' => present,
           present' => \A i \in Ifaces : owner'[i] = "usbfs" <=> owner[i] = "usbfs",
           seen \subseteq seen',
           UNCHANGED <<claimed, hlock, oldKernel, th, snatched, conf>>
    PROVE  IfaceInv'
<1>1. IfaceTypeOK'
  BY DEF IfaceInv, IfaceTypeOK, Bindings, conf
<1>2. LockInv'
  BY DEF IfaceInv, LockInv, Locked
<1>3. IfaceCallInv'
  BY DEF IfaceInv, IfaceCallInv, Claimed, Released, Retaking, Trusted, Tracked, Had
<1>4. Bound'
  BY DEF IfaceInv, Bound, Claimed, Tracked
<1>5. Marked'
  BY DEF IfaceInv, IfaceTypeOK, Marked, Released, GaveUp, Retaking, Answers, Trusted, Had
<1>6. ConfigInv'
  BY DEF IfaceInv, ConfigInv, Holding, conf
<1> QED
  BY <1>1, <1>2, <1>3, <1>4, <1>5, <1>6 DEF IfaceInv

-----------------------------------------------------------------------------
(* Claiming and releasing. *)

(* The lock keeps the other threads away from claims, releases and the end
   of a reset. *)
LEMMA OneInCall ==
    ASSUME IfaceInv, NEW t \in Threads, Locked(t)
    PROVE  /\ hlock = t
           /\ \A u \in Threads : u # t => ~Locked(u)
           /\ \A u \in Threads, i \in Ifaces : u # t =>
                ~Claimed(u, i) /\ ~Released(u, i) /\ ~Retaking(u, i)
  BY DEF IfaceInv, LockInv, Locked, Claimed, Released, Retaking

(* The ioctls of a claim: the last one bound the interface, or nothing did. *)
LEMMA ClaimIoctlStep ==
    ASSUME InterfacesAssumption, IfaceInv, NEW t \in Threads, UNCHANGED conf,
           ClaimGetDriver(t) \/ ClaimDisconnect(t) \/ ClaimIoctl(t)
    PROVE  IfaceInv'
<1> DEFINE i == th[t].i
<1>1. /\ i \in Ifaces /\ i \notin claimed
      /\ th \in [Threads -> Calls] /\ th[t].op = "claim" /\ th[t].pc # "mark"
      /\ Locked(t)
  BY DEF IfaceInv, IfaceTypeOK, Calls, IfaceCallInv, Locked, ClaimGetDriver, ClaimDisconnect,
         ClaimIoctl, At
<1>2. Tracked => \A j \in Ifaces \ claimed : owner[j] # "usbfs"
  BY <1>1, OneInCall DEF IfaceInv, Bound, Claimed
<1>3. /\ th' \in [Threads -> Calls]
      /\ th'[t].op = "claim" /\ th'[t].i = i
      /\ \A u \in Threads : u # t => th'[u] = th[u]
      /\ owner' \in [Ifaces -> Bindings] /\ snatched' \subseteq Ifaces
      /\ \A j \in Ifaces : j # i => owner'[j] = owner[j]
      /\ \A j \in Ifaces : Had(j) => Had(j)'
      /\ present /\ th'[t].pc = "mark" /\ th'[t].r = "ok" => owner'[i] = "usbfs"
      /\ \/ owner'[i] = owner[i]
         \/ owner'[i] = "free"
         \/ th'[t].pc = "mark" /\ th'[t].r = "ok"
  <2>1. CASE ClaimGetDriver(t)
    <3>1. /\ owner' = owner /\ snatched' = snatched
          /\ \E pc \in {"detached", "disconnect"} : th' = [th EXCEPT ![t].pc = pc]
      BY <2>1 DEF ClaimGetDriver, Goto, kernel, history
    <3>2. PICK pc \in Pcs : th' = [th EXCEPT ![t].pc = pc] /\ pc # "mark"
      BY <3>1 DEF Pcs
    <3>3. /\ th' \in [Threads -> Calls]
          /\ th'[t].op = "claim" /\ th'[t].i = i /\ th'[t].pc = pc
          /\ \A u \in Threads : u # t => th'[u] = th[u]
      BY <1>1, <3>2, CallMoved
    <3>4. owner \in [Ifaces -> Bindings] /\ snatched \subseteq Ifaces
      BY DEF IfaceInv, IfaceTypeOK, Bindings
    <3> QED
      BY <3>1, <3>2, <3>3, <3>4 DEF Had
  <2>2. CASE ClaimDisconnect(t)
    <3> DEFINE k == disconnect(i)
               pc == IF k.r = "no_device" THEN "mark" ELSE "detached"
    <3>1. owner' = k.owner /\ th' = [th EXCEPT ![t].pc = pc, ![t].r = k.r] /\ Snatch(i)
      BY <2>2 DEF ClaimDisconnect
    <3>2. /\ k.r \in Codes /\ owner' \in [Ifaces -> Bindings] /\ snatched' \subseteq Ifaces
          /\ \A j \in Ifaces : j # i => owner'[j] = owner[j]
          /\ owner'[i] = owner[i] \/ owner'[i] = "free"
          /\ \A j \in Ifaces : Had(j) => Had(j)'
      BY <1>1, <3>1, DisconnectKeeps
    <3>3. pc \in {"mark", "detached"} /\ (k.r = "ok" => pc # "mark")
      OBVIOUS
    <3> HIDE DEF k, pc
    <3>4. /\ th' \in [Threads -> Calls]
          /\ th'[t].op = th[t].op /\ th'[t].i = i /\ th'[t].pc = pc /\ th'[t].r = k.r
          /\ \A u \in Threads : u # t => th'[u] = th[u]
      <4>1. PICK r \in Codes, p \in Pcs : r = k.r /\ p = pc
        BY <3>2, <3>3 DEF Pcs
      <4>2. PICK g : g = th'
        OBVIOUS
      <4>3. Answering(g, th, t, p, r)
        BY <3>1, <4>1, <4>2 DEF Answering
      <4> QED
        BY <1>1, <4>1, <4>2, <4>3, CallAnswered
    <3> QED
      BY <1>1, <3>1, <3>2, <3>3, <3>4
  <2>3. CASE ClaimIoctl(t)
    <3>1. PICK k \in {claim_interface(i), disconnect_and_claim(i)} :
            /\ owner' = k.owner /\ Regain(i, k.r)
            /\ th' = [th EXCEPT ![t].pc = "mark", ![t].r = k.r]
      BY <2>3 DEF ClaimIoctl
    <3>2. /\ k.r \in Codes /\ owner' \in [Ifaces -> Bindings] /\ snatched' \subseteq Ifaces
          /\ \A j \in Ifaces : j # i => owner'[j] = owner[j]
          /\ k.r = "ok" => owner'[i] = "usbfs"
          /\ k.r # "ok" => owner'[i] = owner[i]
          /\ \A j \in Ifaces : Had(j) => Had(j)'
      BY <1>1, <3>1, ClaimKeeps
    <3>4. /\ th' \in [Threads -> Calls]
          /\ th'[t].op = th[t].op /\ th'[t].i = i /\ th'[t].pc = "mark" /\ th'[t].r = k.r
          /\ \A u \in Threads : u # t => th'[u] = th[u]
      <4>1. PICK r \in Codes, p \in Pcs : r = k.r /\ p = "mark"
        BY <3>2 DEF Pcs
      <4>2. PICK g : g = th'
        OBVIOUS
      <4>3. Answering(g, th, t, p, r)
        BY <3>1, <4>1, <4>2 DEF Answering
      <4> QED
        BY <1>1, <4>1, <4>2, <4>3, CallAnswered
    <3> QED
      BY <1>1, <3>1, <3>2, <3>4
  <2> QED
    BY <2>1, <2>2, <2>3
<1>5. UNCHANGED <<claimed, auto, hlock, present, oldKernel, seen>>
  BY DEF ClaimGetDriver, ClaimDisconnect, ClaimIoctl, kernel, history
<1>6. IfaceTypeOK'
  BY <1>1, <1>3, <1>5 DEF IfaceInv, IfaceTypeOK, Bindings, conf
<1>7. LockInv'
  BY <1>1, <1>3, <1>5 DEF IfaceInv, LockInv, Locked
<1>8. IfaceCallInv'
  <2>1. \A u \in Threads : u # t => ~Locked(u)
    BY <1>1, OneInCall
  <2>2. \A u \in Threads, j \in Ifaces : ~Released(u, j)' /\ ~Retaking(u, j)'
    BY <1>1, <1>3, <2>1 DEF Released, Retaking, Locked
  <2>3. \A u \in Threads, j \in Ifaces : Claimed(u, j)' => u = t /\ j = i
    BY <1>1, <1>3, <2>1 DEF Claimed, Locked
  <2>4. present' => \A u \in Threads, j \in Ifaces : Claimed(u, j)' => Had(j)'
    BY <1>1, <1>3, <1>5, <2>3 DEF Claimed, Had
  <2> QED
    BY <1>1, <1>3, <1>5, <2>1, <2>2, <2>4 DEF IfaceInv, IfaceCallInv, Trusted, Locked
<1>9. Bound'
  BY <1>1, <1>2, <1>3, <1>5 DEF Bound, Claimed, Tracked
<1>10. Marked'
  BY <1>1, <1>3, <1>5
     DEF IfaceInv, IfaceTypeOK, Marked, Released, GaveUp, Retaking, Answers, Trusted
<1>11. ConfigInv'
  BY <1>1, <1>3, <1>5 DEF IfaceInv, ConfigInv, Holding, conf
<1> QED
  BY <1>6, <1>7, <1>8, <1>9, <1>10, <1>11 DEF IfaceInv

(* Steps of a release: what is unbound is answered for until it is unmarked. *)
LEMMA ReleaseIoctlStep ==
    ASSUME InterfacesAssumption, IfaceInv, NEW t \in Threads,
           ReleaseIoctl(t) \/ ReleaseAttach(t), UNCHANGED conf
    PROVE  IfaceInv'
<1> DEFINE i == th[t].i
<1>1. /\ i \in Ifaces /\ i \in claimed
      /\ th \in [Threads -> Calls] /\ th[t].op = "release" /\ th[t].r \in Codes
      /\ Locked(t)
  BY DEF IfaceInv, IfaceTypeOK, Calls, Codes, IfaceCallInv, Locked, ReleaseIoctl, ReleaseAttach, At
<1>2. UNCHANGED <<claimed, auto, hlock, present, oldKernel, seen, snatched>>
  BY DEF ReleaseIoctl, ReleaseAttach, history
<1>3. /\ th' \in [Threads -> Calls]
      /\ th'[t].op = "release" /\ th'[t].i = i /\ th'[t].pc # "ioctl"
      /\ \A u \in Threads : u # t => th'[u] = th[u]
      /\ Released(t, i) => th'[t].r = "ok"
      /\ owner' \in [Ifaces -> Bindings]
      /\ \A j \in Ifaces : j # i => owner'[j] = owner[j]
      /\ Tracked /\ th'[t].r = "ok" => owner'[i] # "usbfs"
      /\ th'[t].r # "ok" => (owner'[i] = "usbfs" <=> owner[i] = "usbfs")
  <2>1. CASE ReleaseIoctl(t)
    <3> DEFINE k == release_interface(i)
               pc == IF k.r = "ok" /\ auto THEN "attach" ELSE "mark"
    <3>1. owner' = k.owner /\ th' = [th EXCEPT ![t].pc = pc, ![t].r = k.r]
      BY <2>1 DEF ReleaseIoctl
    <3>2. /\ k.r \in Codes /\ k.owner \in [Ifaces -> Bindings]
          /\ \A j \in Ifaces : j # i => k.owner[j] = owner[j]
      BY <1>1, IoctlTypes
    <3>3. /\ pc \in {"attach", "mark"}
          /\ k.r = "ok" => k.owner[i] # "usbfs"
          /\ k.r # "ok" => k.owner = owner
      BY <1>1 DEF release_interface, IfaceInv, IfaceTypeOK
    <3>4. ~Released(t, i)
      BY <2>1 DEF ReleaseIoctl, At, Released
    <3> HIDE DEF k, pc
    <3>5. /\ th' \in [Threads -> Calls]
          /\ th'[t].op = th[t].op /\ th'[t].i = i /\ th'[t].pc = pc /\ th'[t].r = k.r
          /\ \A u \in Threads : u # t => th'[u] = th[u]
      <4>1. PICK r \in Codes, p \in Pcs : r = k.r /\ p = pc
        BY <3>2, <3>3 DEF Pcs
      <4>2. PICK g : g = th'
        OBVIOUS
      <4>3. Answering(g, th, t, p, r)
        BY <3>1, <4>1, <4>2 DEF Answering
      <4> QED
        BY <1>1, <4>1, <4>2, <4>3, CallAnswered
    <3> QED
      BY <1>1, <3>1, <3>2, <3>3, <3>4, <3>5
  <2>2. CASE ReleaseAttach(t)
    <3> DEFINE k == op_attach_kernel_driver(i)
    <3>1. owner' = k.owner /\ th' = [th EXCEPT ![t].pc = "mark"]
      BY <2>2 DEF ReleaseAttach, Goto
    <3>2. /\ k.owner \in [Ifaces -> Bindings]
          /\ \A j \in Ifaces : j # i => k.owner[j] = owner[j]
      BY <1>1, IoctlTypes
    <3>3. k.owner[i] = "usbfs" <=> owner[i] = "usbfs"
      BY <1>1 DEF op_attach_kernel_driver, IfaceInv, IfaceTypeOK
    <3>4. Tracked /\ th[t].r = "ok" => owner[i] # "usbfs"
      BY <1>1, <2>2 DEF IfaceInv, IfaceCallInv, Released, ReleaseAttach, At
    <3> HIDE DEF k
    <3>5. /\ th' \in [Threads -> Calls]
          /\ th'[t].op = th[t].op /\ th'[t].i = i /\ th'[t].pc = "mark" /\ th'[t].r = th[t].r
          /\ \A u \in Threads : u # t => th'[u] = th[u]
      BY <1>1, <3>1, CallMoved DEF Pcs
    <3> QED
      BY <1>1, <3>1, <3>2, <3>3, <3>4, <3>5 DEF Released
  <2> QED
    BY <2>1, <2>2
<1>5. \A j \in Ifaces : owner'[j] = "usbfs" => owner[j] = "usbfs" \/ j = i
  BY <1>3
<1>6. IfaceTypeOK'
  BY <1>1, <1>2, <1>3 DEF IfaceInv, IfaceTypeOK, Bindings, conf
<1>7. LockInv'
  BY <1>1, <1>2, <1>3 DEF IfaceInv, LockInv, Locked
<1>8. IfaceCallInv'
  BY <1>1, <1>2, <1>3, OneInCall
     DEF IfaceInv, IfaceCallInv, Claimed, Released, Retaking, Trusted, Tracked, Had, Locked
<1>9. Bound'
  BY <1>1, <1>2, <1>3, <1>5 DEF IfaceInv, Bound, Claimed, Tracked
<1>10. Marked'
  <2> SUFFICES ASSUME Trusted, NEW j \in claimed, ~Had(j)'
               PROVE  \E u \in Threads : Answers(u, j)'
    BY <1>2 DEF Marked, Trusted
  <2>1. CASE j = i /\ th'[t].r = "ok"
    BY <1>3, <2>1 DEF Answers, Released
  <2>2. CASE ~(j = i /\ th'[t].r = "ok")
    <3>1. j \in Ifaces /\ ~Had(j)
      BY <1>2, <1>3, <2>2 DEF IfaceInv, IfaceTypeOK, Had
    <3>2. PICK u \in Threads : Answers(u, j)
      BY <3>1 DEF IfaceInv, Marked
    <3>3. CASE u = t
      BY <1>1, <1>3, <2>2, <3>1, <3>2, <3>3 DEF Answers, Released, GaveUp, Retaking
    <3> QED
      BY <1>3, <3>2, <3>3 DEF Answers, Released, GaveUp, Retaking
  <2> QED
    BY <2>1, <2>2
<1>11. ConfigInv'
  BY <1>1, <1>2, <1>3 DEF IfaceInv, ConfigInv, Holding, conf
<1> QED
  BY <1>6, <1>7, <1>8, <1>9, <1>10, <1>11 DEF IfaceInv

-----------------------------------------------------------------------------
(* The reset. *)

Resetting(t) ==
  /\ th \in [Threads -> Calls] /\ th' \in [Threads -> Calls]
  /\ th[t].op = "reset" /\ th'[t].op = "reset"
  /\ \A u \in Threads : u # t => th'[u] = th[u]
  /\ UNCHANGED <<auto, present, oldKernel>>

(* The places of the second loop: past an interface, or on the way to take
   it back. *)
Passed(t, n) == th'[t].pc = "reclaim" /\ th'[t].next = n + 1
Kept(t, n) == th'[t].pc \in {"disconnect", "detached"} /\ th'[t].next = n

LEMMA PassedNext ==
    ASSUME InterfacesAssumption, NEW t \in Threads, NEW i \in Ifaces, NEW r,
           th \in [Threads -> Calls],
           \/ th' = [th EXCEPT ![t].next = i + 1] /\ th[t].pc = "reclaim"
           \/ ResetTaken(t, i, r)
    PROVE  /\ th' \in [Threads -> Calls] /\ th'[t].op = th[t].op
           /\ \A u \in Threads : u # t => th'[u] = th[u]
           /\ Passed(t, i)
<1>1. i + 1 \in 0..MaxInterfaces
  <2>1. i \in Int /\ 0 <= i /\ i <= MaxInterfaces - 1 /\ MaxInterfaces \in Int
    BY DEF Ifaces, InterfacesAssumption
  <2> QED
    BY <2>1
<1>2. PICK n \in 0..MaxInterfaces : n = i + 1
  BY <1>1
<1>3. PICK c \in Calls : c = th[t]
  OBVIOUS
<1>4. CASE th' = [th EXCEPT ![t].next = i + 1] /\ th[t].pc = "reclaim"
  <2>1. PICK e : e = [c EXCEPT !.next = n]
    OBVIOUS
  <2>2. e \in Calls /\ e.op = c.op /\ e.pc = "reclaim" /\ e.next = n
    BY <1>3, <1>4, <2>1 DEF Calls
  <2>3. th' = [th EXCEPT ![t] = e]
    BY <1>2, <1>3, <1>4, <2>1
  <2> QED
    BY <1>2, <1>3, <2>2, <2>3 DEF Passed
<1>5. CASE ResetTaken(t, i, r)
  <2>1. PICK a \in Codes : a = IF r = "ok" THEN th[t].r ELSE "not_found"
    BY DEF Calls, Codes
  <2>2. PICK e : e = [c EXCEPT !.pc = "reclaim", !.next = n, !.r = a]
    OBVIOUS
  <2>3. e \in Calls /\ e.op = c.op /\ e.pc = "reclaim" /\ e.next = n
    BY <2>2 DEF Calls, Codes
  <2>4. /\ th'[t] = [c EXCEPT !.pc = "reclaim", !.next = n, !.r = a]
        /\ DOMAIN th' = Threads /\ \A u \in Threads : u # t => th'[u] = th[u]
    BY <1>2, <1>3, <1>5, <2>1 DEF ResetTaken
  <2>5. th' = [u \in Threads |-> th'[u]]
    BY <1>5 DEF ResetTaken
  <2>6. th'[t] = e
    BY <2>2, <2>4
  <2>7. th' \in [Threads -> Calls]
    BY <2>3, <2>4, <2>5, <2>6
  <2> QED
    BY <1>2, <1>3, <2>3, <2>4, <2>6, <2>7 DEF Passed
<1> QED
  BY <1>4, <1>5

LEMMA ResetTakeStep ==
    ASSUME InterfacesAssumption, IfaceInv, NEW t \in Threads,
           ResetSkip(t) \/ ResetGetDriver(t) \/ ResetDisconnect(t) \/ ResetReclaim(t)
    PROVE  /\ th[t].op = "reset" /\ th[t].pc \in {"reclaim", "disconnect", "detached"}
           /\ th[t].next \in Ifaces
           /\ th' \in [Threads -> Calls] /\ th'[t].op = "reset"
           /\ \A u \in Threads : u # t => th'[u] = th[u]
           /\ Passed(t, th[t].next) \/ Kept(t, th[t].next)
           /\ ResetSkip(t) \/ ResetReclaim(t) => Passed(t, th[t].next)
           /\ ResetGetDriver(t) => Kept(t, th[t].next)
           /\ ResetDisconnect(t) /\ present => Kept(t, th[t].next)
<1> DEFINE i == th[t].next
<1>1. /\ th \in [Threads -> Calls] /\ claimed \subseteq Ifaces
      /\ th[t].op = "reset" /\ th[t].pc \in {"reclaim", "disconnect", "detached"}
      /\ i \in Ifaces
  BY DEF ResetSkip, ResetGetDriver, ResetDisconnect, ResetReclaim, At, IfaceInv, IfaceTypeOK,
         IfaceCallInv
<1>3. CASE ResetSkip(t)
  <2>1. th' = [th EXCEPT ![t].next = i + 1] /\ th[t].pc = "reclaim"
    BY <1>3 DEF ResetSkip, At
  <2>2. /\ th' \in [Threads -> Calls] /\ th'[t].op = "reset"
        /\ \A u \in Threads : u # t => th'[u] = th[u]
        /\ Passed(t, i)
    BY <1>1, <2>1, PassedNext
  <2> QED
    BY <1>1, <1>3, <2>2 DEF ResetSkip, ResetGetDriver, ResetDisconnect, ResetReclaim, At
<1>4. ASSUME NEW r, ResetTaken(t, i, r)
      PROVE  /\ th' \in [Threads -> Calls] /\ th'[t].op = "reset"
             /\ \A u \in Threads : u # t => th'[u] = th[u]
             /\ Passed(t, i)
  BY <1>1, <1>4, PassedNext
<1>5. ASSUME NEW pc \in {"disconnect", "detached"}, Goto(t, pc)
      PROVE  /\ th' \in [Threads -> Calls] /\ th'[t].op = "reset"
             /\ \A u \in Threads : u # t => th'[u] = th[u]
             /\ Kept(t, i)
  BY <1>1, <1>5 DEF Goto, Calls, Kept
<1>6. CASE ResetGetDriver(t)
  <2>1. PICK pc \in {"disconnect", "detached"} : Goto(t, pc)
    BY <1>6 DEF ResetGetDriver
  <2> QED
    BY <1>1, <1>5, <1>6, <2>1 DEF ResetSkip, ResetGetDriver, ResetDisconnect, ResetReclaim, At
<1>7. CASE ResetDisconnect(t)
  <2>1. /\ ResetTaken(t, i, disconnect(i).r) \/ Goto(t, "detached")
        /\ present => Goto(t, "detached")
    BY <1>7 DEF ResetDisconnect, disconnect
  <2> QED
    BY <1>1, <1>4, <1>5, <1>7, <2>1 DEF ResetSkip, ResetGetDriver, ResetDisconnect, ResetReclaim, At
<1>8. CASE ResetReclaim(t)
  <2>1. \E r : ResetTaken(t, i, r)
    BY <1>8 DEF ResetReclaim
  <2> QED
    BY <1>1, <1>4, <1>8, <2>1 DEF ResetSkip, ResetGetDriver, ResetDisconnect, ResetReclaim, At
<1> QED
  BY <1>3, <1>6, <1>7, <1>8

(* What every step of a reset but its first and last has in common. *)
LEMMA ResetFrame ==
    ASSUME InterfacesAssumption, IfaceInv, NEW t \in Threads, UNCHANGED conf,
           \/ ResetGiveUp(t) \/ ResetLock(t) \/ ResetIoctl(t)
           \/ ResetSkip(t) \/ ResetGetDriver(t) \/ ResetDisconnect(t) \/ ResetReclaim(t)
    PROVE  Resetting(t) /\ ConfigInv'
<1>1. th \in [Threads -> Calls]
  BY DEF IfaceInv, IfaceTypeOK
<1>2. /\ th[t].op = "reset"
      /\ UNCHANGED <<auto, present, oldKernel>>
      /\ seen \subseteq seen'
  BY DEF ResetGiveUp, ResetLock, ResetIoctl, ResetSkip, ResetGetDriver, ResetDisconnect,
         ResetReclaim, At, kernel, history
<1>3. /\ th' \in [Threads -> Calls] /\ th'[t].op = "reset"
      /\ \A u \in Threads : u # t => th'[u] = th[u]
  <2>1. CASE ResetGiveUp(t)
    BY <1>1, <1>2, <2>1 DEF ResetGiveUp, Calls, InterfacesAssumption
  <2>2. CASE ResetLock(t)
    BY <1>1, <1>2, <2>2 DEF ResetLock, Goto, Calls
  <2>3. CASE ResetIoctl(t)
    <3>1. \/ th' = [th EXCEPT ![t].pc = "reclaim", ![t].next = 0]
          \/ th' = [th EXCEPT ![t].pc = "unlock",
                              ![t].r = IF present THEN "other" ELSE "not_found"]
      BY <2>3 DEF ResetIoctl
    <3> QED
      BY <1>1, <1>2, <3>1 DEF Calls, InterfacesAssumption
  <2>4. CASE ResetSkip(t) \/ ResetGetDriver(t) \/ ResetDisconnect(t) \/ ResetReclaim(t)
    BY <2>4, ResetTakeStep
  <2> QED
    BY <2>1, <2>2, <2>3, <2>4
<1>4. ConfigInv'
  BY <1>2, <1>3 DEF IfaceInv, ConfigInv, Holding, conf
<1> QED
  BY <1>1, <1>2, <1>3, <1>4 DEF Resetting

(* A reset begins with the lock free and nothing given up. *)
LEMMA ResetBeginStep ==
    ASSUME InterfacesAssumption, IfaceInv, NEW t \in Threads, ResetBegin(t), UNCHANGED conf
    PROVE  IfaceInv'
<1> DEFINE c == [op |-> "reset", pc |-> "giveup", i |-> 0, r |-> "ok", next |-> 0]
<1>1. c \in Calls /\ c.op = "reset" /\ c.pc = "giveup" /\ c.next = 0
  BY CallTypes
<1>2. /\ th' = [th EXCEPT ![t] = c] /\ th[t].op = "idle"
      /\ UNCHANGED <<claimed, auto, hlock, kernel, history>>
  BY DEF ResetBegin, Begin, May
<1> HIDE DEF c
<1>3. IfaceTypeOK'
  BY <1>1, <1>2 DEF IfaceInv, IfaceTypeOK, kernel, history, conf
<1>4. /\ th'[t].op = "reset" /\ th'[t].pc = "giveup"
      /\ \A u \in Threads : u # t => th'[u] = th[u]
  BY <1>1, <1>2 DEF IfaceInv, IfaceTypeOK
<1>5. LockInv'
  BY <1>2, <1>4 DEF IfaceInv, LockInv, Locked
<1>6. IfaceCallInv'
  BY <1>2, <1>4 DEF IfaceInv, IfaceCallInv, Claimed, Released, Retaking, Trusted, Tracked, Had, kernel, history
<1>7. Bound'
  BY <1>2, <1>4 DEF IfaceInv, Bound, Claimed, Tracked, kernel, history
<1>8. Marked'
  BY <1>2, <1>4 DEF IfaceInv, Marked, Released, GaveUp, Retaking, Answers, Trusted, Had, kernel, history
<1>9. ConfigInv'
  BY <1>2, <1>4 DEF IfaceInv, ConfigInv, Holding, kernel, history, conf
<1> QED
  BY <1>3, <1>5, <1>6, <1>7, <1>8, <1>9 DEF IfaceInv

(* The first loop, without the lock: it unbinds what is marked only, so no
   claim in progress loses its interface. *)
LEMMA ResetGiveUpStep ==
    ASSUME InterfacesAssumption, IfaceInv, NEW t \in Threads, ResetGiveUp(t), UNCHANGED conf
    PROVE  IfaceInv'
<1> DEFINE i == th[t].next
<1>0. Resetting(t) /\ ConfigInv'
  BY ResetFrame
<1> USE <1>0 DEF Resetting
<1>1. /\ th[t].pc = "giveup" /\ i \in Ifaces
      /\ UNCHANGED <<claimed, hlock, seen, snatched>>
      /\ owner' = IF i \in claimed THEN release_interface(i).owner ELSE owner
      /\ th' = [th EXCEPT ![t].next = i + 1]
  <2>1. i \in 0..MaxInterfaces
    BY DEF Calls
  <2>2. i < MaxInterfaces
    BY DEF ResetGiveUp
  <2>3. i \in Ifaces
    BY <2>1, <2>2 DEF Ifaces, InterfacesAssumption
  <2> QED
    BY <2>3 DEF ResetGiveUp, At, history
<1>2. th'[t].pc = "giveup" /\ th'[t].next = i + 1
  BY <1>1 DEF Calls
<1>3. /\ owner' \in [Ifaces -> Bindings]
      /\ \A j \in Ifaces : owner'[j] = owner[j] \/ (j = i /\ i \in claimed)
      /\ \A j \in Ifaces : owner'[j] = "usbfs" => owner[j] = "usbfs"
  <2>1. /\ release_interface(i).owner \in [Ifaces -> Bindings]
        /\ \A j \in Ifaces : j # i => release_interface(i).owner[j] = owner[j]
    BY <1>1, IoctlTypes
  <2>2. \A j \in Ifaces : release_interface(i).owner[j] = "usbfs" => owner[j] = "usbfs"
    BY <1>1 DEF release_interface, IfaceInv, IfaceTypeOK
  <2>3. owner \in [Ifaces -> Bindings]
    BY DEF IfaceInv, IfaceTypeOK, Bindings
  <2>4. CASE i \in claimed
    BY <1>1, <2>1, <2>2, <2>4
  <2>5. CASE i \notin claimed
    BY <1>1, <2>3, <2>5
  <2> QED
    BY <2>4, <2>5
<1>4. IfaceTypeOK'
  BY <1>1, <1>3 DEF IfaceInv, IfaceTypeOK, Bindings, conf
<1>5. LockInv'
  BY <1>1, <1>2 DEF IfaceInv, LockInv, Locked
<1>6. IfaceCallInv'
  BY <1>1, <1>2, <1>3
     DEF IfaceInv, IfaceCallInv, Claimed, Released, Retaking, Trusted, Tracked, Had
<1>7. Bound'
  BY <1>1, <1>3 DEF IfaceInv, Bound, Claimed, Tracked
<1>8. Marked'
  <2> SUFFICES ASSUME Trusted, NEW j \in claimed, ~Had(j)'
               PROVE  \E u \in Threads : Answers(u, j)'
    BY <1>1 DEF Marked, Trusted
  <2>1. j \in Ifaces /\ Ifaces \subseteq Int /\ i \in Int
    BY <1>1 DEF IfaceInv, IfaceTypeOK, Ifaces
  <2>2. CASE j = i
    BY <1>2, <2>1, <2>2 DEF Answers, GaveUp
  <2>3. CASE j # i
    <3>1. PICK u \in Threads : Answers(u, j)
      BY <1>1, <1>3, <2>1, <2>3 DEF IfaceInv, Marked, Had
    <3> QED
      BY <1>1, <1>2, <2>1, <3>1 DEF Answers, Released, GaveUp, Retaking
  <2> QED
    BY <2>2, <2>3
<1> QED
  BY <1>4, <1>5, <1>6, <1>7, <1>8 DEF IfaceInv

(* The lock is taken with every interface given up. *)
LEMMA ResetLockStep ==
    ASSUME InterfacesAssumption, IfaceInv, NEW t \in Threads, ResetLock(t), UNCHANGED conf
    PROVE  IfaceInv'
<1>0. Resetting(t) /\ ConfigInv'
  BY ResetFrame
<1> USE <1>0 DEF Resetting
<1>1. /\ th[t].pc = "giveup" /\ th[t].next = MaxInterfaces
      /\ hlock = Nobody /\ hlock' = t
      /\ UNCHANGED <<claimed, seen, snatched, owner>>
  BY DEF ResetLock, At, kernel, history
<1>2. th'[t].pc = "reset" /\ th'[t].next = MaxInterfaces
  BY <1>1 DEF ResetLock, Goto, Calls
<1>3. IfaceTypeOK'
  BY <1>1 DEF IfaceInv, IfaceTypeOK, conf
<1>4. LockInv'
  BY <1>1, <1>2 DEF IfaceInv, LockInv, Locked, InterfacesAssumption
<1>5. IfaceCallInv'
  BY <1>1, <1>2 DEF IfaceInv, IfaceCallInv, Claimed, Released, Retaking, Trusted, Tracked, Had
<1>6. Bound'
  BY <1>1 DEF IfaceInv, Bound, Claimed, Tracked
<1>7. Marked'
  BY <1>1, <1>2 DEF IfaceInv, Marked, Answers, Released, GaveUp, Retaking, Trusted, Had
<1> QED
  BY <1>3, <1>4, <1>5, <1>6, <1>7 DEF IfaceInv

(* The reset unbinds everything, and whatever is marked will be taken back. *)
LEMMA ResetIoctlStep ==
    ASSUME InterfacesAssumption, IfaceInv, NEW t \in Threads, ResetIoctl(t), UNCHANGED conf
    PROVE  IfaceInv'
<1>0. Resetting(t) /\ ConfigInv'
  BY ResetFrame
<1> USE <1>0 DEF Resetting
<1>1. /\ th[t].pc = "reset" /\ Locked(t)
      /\ UNCHANGED <<claimed, hlock, snatched>>
  BY DEF ResetIoctl, At, Locked
<1>2. /\ owner' \in [Ifaces -> Bindings]
      /\ \/ /\ th'[t].pc = "reclaim" /\ th'[t].next = 0
            /\ \A i \in Ifaces : owner'[i] # "usbfs"
            /\ seen' = seen
         \/ /\ th'[t].pc = "unlock" /\ "reset_failed" \in seen'
            /\ seen \subseteq seen' /\ owner' = owner
  <2>1. CASE seen' = seen \cup {"reset_failed"} /\ owner' = owner
             /\ th' = [th EXCEPT ![t].pc = "unlock",
                                 ![t].r = IF present THEN "other" ELSE "not_found"]
    BY <2>1 DEF IfaceInv, IfaceTypeOK, Bindings, Calls
  <2>2. CASE seen' = seen /\ th' = [th EXCEPT ![t].pc = "reclaim", ![t].next = 0]
             /\ \E bound \in SUBSET Drivers :
                  owner' = [i \in Ifaces |-> IF owner[i] # "usbfs" THEN owner[i]
                                             ELSE IF i \in bound THEN "driver" ELSE "free"]
    <3>1. th'[t].pc = "reclaim" /\ th'[t].next = 0
      BY <2>2 DEF Calls
    <3>2. owner' \in [Ifaces -> Bindings] /\ \A i \in Ifaces : owner'[i] # "usbfs"
      BY <2>2 DEF IfaceInv, IfaceTypeOK, Bindings
    <3> QED
      BY <2>2, <3>1, <3>2
  <2> QED
    BY <2>1, <2>2 DEF ResetIoctl
<1>3. IfaceTypeOK'
  BY <1>1, <1>2 DEF IfaceInv, IfaceTypeOK, Bindings, conf
<1>4. LockInv'
  BY <1>1, <1>2 DEF IfaceInv, LockInv, Locked
<1>5. IfaceCallInv'
  BY <1>1, <1>2, OneInCall
     DEF IfaceInv, IfaceCallInv, Claimed, Released, Retaking, Trusted, Tracked, Had, Locked
<1>6. Bound'
  <2>1. \A u \in Threads, i \in Ifaces : ~Claimed(u, i)
    BY <1>1, OneInCall DEF Claimed
  <2>2. Tracked' => Tracked
    BY <1>2 DEF Tracked
  <2>3. \A i \in Ifaces : owner'[i] = "usbfs" => owner[i] = "usbfs"
    BY <1>2
  <2> QED
    BY <1>1, <2>1, <2>2, <2>3 DEF IfaceInv, Bound
<1>7. Marked'
  <2> SUFFICES ASSUME Trusted', NEW i \in claimed
               PROVE  \E u \in Threads : Answers(u, i)'
    BY <1>1 DEF Marked
  <2>1. i \in Ifaces /\ i >= 0
    BY <1>1 DEF IfaceInv, IfaceTypeOK, Ifaces
  <2>2. th'[t].pc = "reclaim" /\ th'[t].next = 0
    BY <1>2 DEF Trusted
  <2> QED
    BY <2>1, <2>2 DEF Answers, GaveUp, Retaking
<1> QED
  BY <1>3, <1>4, <1>5, <1>6, <1>7 DEF IfaceInv

(* The second loop on an old kernel, before the ioctl that claims: the
   interface is still one to be taken back. *)
LEMMA ResetDetachStep ==
    ASSUME InterfacesAssumption, IfaceInv, NEW t \in Threads, UNCHANGED conf,
           ResetGetDriver(t) \/ (ResetDisconnect(t) /\ present)
    PROVE  IfaceInv'
<1> DEFINE i == th[t].next
<1>0. Resetting(t) /\ ConfigInv'
  BY ResetFrame
<1> USE <1>0 DEF Resetting
<1>1. /\ th[t].pc \in {"reclaim", "disconnect"} /\ Locked(t) /\ Kept(t, i)
      /\ i \in Ifaces /\ i \in claimed
      /\ UNCHANGED <<hlock, seen, claimed>>
  <2>1. CASE ResetGetDriver(t)
    BY <2>1, ResetTakeStep DEF ResetGetDriver, At, Locked, history
  <2>2. CASE ResetDisconnect(t) /\ present
    BY <2>2, ResetTakeStep DEF ResetDisconnect, disconnect, At, Locked, IfaceInv, IfaceCallInv
  <2> QED
    BY <2>1, <2>2
<1>2. /\ owner' \in [Ifaces -> Bindings] /\ snatched' \subseteq Ifaces
      /\ \A j \in Ifaces : owner'[j] = "usbfs" => owner[j] = "usbfs"
      /\ \A j \in Ifaces : Had(j) => Had(j)'
  <2>1. CASE ResetGetDriver(t)
    BY <2>1 DEF ResetGetDriver, kernel, history, Had, IfaceInv, IfaceTypeOK, Bindings
  <2>2. CASE ResetDisconnect(t)
    <3>1. owner' = disconnect(i).owner /\ Snatch(i)
      BY <2>2 DEF ResetDisconnect
    <3>2. /\ owner' \in [Ifaces -> Bindings] /\ snatched' \subseteq Ifaces
          /\ \A j \in Ifaces : j # i => owner'[j] = owner[j]
          /\ owner'[i] = owner[i] \/ owner'[i] = "free"
          /\ \A j \in Ifaces : Had(j) => Had(j)'
      BY <1>1, <3>1, DisconnectKeeps
    <3> QED
      BY <1>1, <3>2
  <2> QED
    BY <2>1, <2>2
<1>3. \A u \in Threads : u # t =>
        /\ ~Locked(u)
        /\ \A j \in Ifaces : ~Claimed(u, j) /\ ~Released(u, j) /\ ~Retaking(u, j)
  BY <1>1, OneInCall
<1>4. \A j \in Ifaces : Retaking(t, j)' <=> Retaking(t, j)
  BY <1>1 DEF Retaking, Kept
<1>5. IfaceTypeOK'
  BY <1>1, <1>2 DEF IfaceInv, IfaceTypeOK, Bindings, conf
<1>6. LockInv'
  BY <1>1 DEF IfaceInv, LockInv, Locked, Kept
<1>7. IfaceCallInv'
  <2>1. Tracked' => \A j \in Ifaces : Retaking(t, j)' => owner'[j] # "usbfs"
    BY <1>1, <1>2, <1>4 DEF IfaceInv, IfaceCallInv, Tracked
  <2>2. \A u \in Threads : u # t =>
          /\ th[u].op \notin {"claim", "release"}
          /\ ~(th[u].op = "reset" /\ th[u].pc # "giveup")
    BY <1>3 DEF Locked
  <2>3. \A u \in Threads, j \in Ifaces : ~Claimed(u, j)' /\ ~Released(u, j)'
    BY <2>2 DEF Claimed, Released
  <2>4. \A u \in Threads, j \in Ifaces : Retaking(u, j)' => u = t
    BY <2>2 DEF Retaking
  <2> QED
    BY <1>1, <2>1, <2>2, <2>3, <2>4 DEF IfaceCallInv, Kept
<1>8. Bound'
  BY <1>1, <1>2, <1>3 DEF IfaceInv, Bound, Tracked, Claimed
<1>9. Marked'
  <2> SUFFICES ASSUME Trusted, NEW j \in claimed, ~Had(j)'
               PROVE  \E u \in Threads : Answers(u, j)'
    BY <1>1 DEF Marked, Trusted
  <2>1. j \in Ifaces /\ ~Had(j)
    BY <1>2 DEF IfaceInv, IfaceTypeOK
  <2>2. PICK u \in Threads : Answers(u, j)
    BY <2>1 DEF IfaceInv, Marked
  <2>3. CASE u = t
    BY <1>1, <1>4, <2>1, <2>2, <2>3 DEF Answers, Released, GaveUp
  <2> QED
    BY <2>2, <2>3 DEF Answers, Released, GaveUp, Retaking
<1> QED
  BY <1>0, <1>5, <1>6, <1>7, <1>8, <1>9 DEF IfaceInv

(* The second loop: what it cannot take back it unmarks. *)
LEMMA ResetReclaimStep ==
    ASSUME InterfacesAssumption, IfaceInv, NEW t \in Threads, UNCHANGED conf,
           ResetSkip(t) \/ ResetReclaim(t) \/ (ResetDisconnect(t) /\ ~present)
    PROVE  IfaceInv'
<1> DEFINE i == th[t].next
<1>0. Resetting(t) /\ ConfigInv'
  BY ResetFrame
<1> USE <1>0 DEF Resetting
<1>1. /\ th[t].pc \in {"reclaim", "disconnect", "detached"} /\ Locked(t)
      /\ i \in Ifaces /\ i \in Int /\ Passed(t, i)
      /\ UNCHANGED <<hlock, seen>>
  <2>1. i \in Ifaces /\ i \in Int /\ th[t].pc \in {"reclaim", "disconnect", "detached"}
    BY ResetTakeStep DEF Ifaces
  <2>2. Passed(t, i)
    <3>1. CASE ResetDisconnect(t) /\ ~present
      <4>1. ResetTaken(t, i, "no_device")
        BY <3>1 DEF ResetDisconnect, disconnect
      <4> QED
        BY <2>1, <4>1, PassedNext
    <3> QED
      BY <3>1, ResetTakeStep
  <2> QED
    BY <2>1, <2>2 DEF Locked, ResetSkip, ResetDisconnect, ResetReclaim, kernel, history
<1>3. Tracked => owner[i] # "usbfs"
  BY <1>1 DEF IfaceInv, IfaceCallInv, Retaking
<1>4. /\ owner' \in [Ifaces -> Bindings] /\ snatched' \subseteq Ifaces
      /\ \A j \in Ifaces : j # i => owner'[j] = owner[j] /\ (j \in claimed' <=> j \in claimed)
      /\ claimed' \subseteq claimed
      /\ \A j \in Ifaces : Had(j) => Had(j)'
      /\ Tracked => (owner'[i] = "usbfs" => i \in claimed')
      /\ present => (i \in claimed' => owner'[i] = "usbfs")
  <2>1. owner \in [Ifaces -> Bindings] /\ snatched \subseteq Ifaces
    BY DEF IfaceInv, IfaceTypeOK, Bindings
  <2>2. CASE ResetSkip(t)
    BY <1>3, <2>1, <2>2 DEF ResetSkip, kernel, history, Had
  <2>3. CASE ResetDisconnect(t) /\ ~present
    <3>1. /\ owner' = disconnect(i).owner /\ Snatch(i)
          /\ claimed' = claimed \ {i}
      BY <2>3 DEF ResetDisconnect, ResetTaken, disconnect
    <3>2. /\ owner' \in [Ifaces -> Bindings] /\ snatched' \subseteq Ifaces
          /\ \A j \in Ifaces : j # i => owner'[j] = owner[j]
          /\ \A j \in Ifaces : Had(j) => Had(j)'
      BY <1>1, <3>1, DisconnectKeeps
    <3> QED
      BY <2>3, <3>1, <3>2 DEF Tracked
  <2>4. CASE ResetReclaim(t)
    <3>1. PICK k \in {claim_interface(i), disconnect_and_claim(i)} :
            /\ owner' = k.owner /\ Regain(i, k.r)
            /\ claimed' = IF k.r = "ok" THEN claimed ELSE claimed \ {i}
      BY <2>4 DEF ResetReclaim, ResetTaken
    <3>2. /\ owner' \in [Ifaces -> Bindings] /\ snatched' \subseteq Ifaces
          /\ \A j \in Ifaces : j # i => owner'[j] = owner[j]
          /\ k.r = "ok" => owner'[i] = "usbfs"
          /\ k.r # "ok" => owner'[i] = owner[i]
          /\ \A j \in Ifaces : Had(j) => Had(j)'
      BY <1>1, <3>1, ClaimKeeps
    <3>3. i \in claimed
      BY <2>4 DEF ResetReclaim, At, IfaceInv, IfaceCallInv
    <3>4. CASE k.r = "ok"
      <4>1. claimed' = claimed /\ owner'[i] = "usbfs"
        BY <3>1, <3>2, <3>4
      <4> QED
        BY <3>2, <3>3, <4>1
    <3>5. CASE k.r # "ok"
      <4>1. claimed' = claimed \ {i} /\ owner'[i] = owner[i]
        BY <3>1, <3>2, <3>5
      <4> QED
        BY <1>3, <3>2, <4>1
    <3> QED
      BY <3>4, <3>5
  <2> QED
    BY <2>2, <2>3, <2>4
<1>5. \A u \in Threads : u # t =>
        /\ ~Locked(u)
        /\ \A j \in Ifaces : ~Claimed(u, j) /\ ~Released(u, j) /\ ~Retaking(u, j)
  BY <1>1, OneInCall
<1>6. IfaceTypeOK'
  BY <1>1, <1>4 DEF IfaceInv, IfaceTypeOK, Bindings, conf
<1>7. LockInv'
  BY <1>1 DEF IfaceInv, LockInv, Locked, Passed
<1>8. IfaceCallInv'
  <2>1. \A u \in Threads : u # t =>
          /\ th[u].op \notin {"claim", "release"}
          /\ ~(th[u].op = "reset" /\ th[u].pc # "giveup")
    BY <1>5 DEF Locked
  <2>2. \A j \in Ifaces : Retaking(t, j)' => Retaking(t, j) /\ j # i
    BY <1>1 DEF Retaking, Ifaces, Passed
  <2>3. Tracked' => \A j \in Ifaces : Retaking(t, j)' => owner'[j] # "usbfs"
    BY <1>1, <1>4, <2>2 DEF IfaceInv, IfaceCallInv, Tracked
  <2>4. \A u \in Threads, j \in Ifaces : ~Claimed(u, j)' /\ ~Released(u, j)'
    BY <2>1 DEF Claimed, Released
  <2>5. \A u \in Threads, j \in Ifaces : Retaking(u, j)' => u = t
    BY <2>1 DEF Retaking
  <2> QED
    BY <1>1, <2>1, <2>3, <2>4, <2>5 DEF IfaceCallInv, Passed
<1>9. Bound'
  BY <1>1, <1>4, <1>5 DEF IfaceInv, Bound, Tracked, Claimed
<1>10. Marked'
  <2> SUFFICES ASSUME Trusted, NEW j \in claimed', ~Had(j)'
               PROVE  \E u \in Threads : Answers(u, j)'
    BY <1>1 DEF Marked, Trusted
  <2>1. j \in claimed /\ j \in Ifaces /\ j \in Int
    BY <1>4 DEF IfaceInv, IfaceTypeOK, Ifaces
  <2>4. ~Had(j) /\ j # i
    <3>1. ~Had(j)
      BY <1>4, <2>1
    <3>2. CASE j = i
      BY <1>4, <2>1, <3>2 DEF Trusted, Had
    <3> QED
      BY <3>1, <3>2
  <2>2. PICK u \in Threads : Answers(u, j)
    BY <2>1, <2>4 DEF IfaceInv, Marked
  <2>3. CASE u = t
    BY <1>1, <2>1, <2>2, <2>3, <2>4 DEF Answers, Released, GaveUp, Retaking, Passed
  <2> QED
    BY <2>2, <2>3 DEF Answers, Released, GaveUp, Retaking
<1> QED
  BY <1>0, <1>6, <1>7, <1>8, <1>9, <1>10 DEF IfaceInv

-----------------------------------------------------------------------------
(* The configuration. *)

(* Setting or reading the configuration disturbs no claim: it binds nothing
   and holds no lock.  c is the record of the calling thread after the step. *)
LEMMA ConfigFrame ==
    ASSUME InterfacesAssumption, IfaceInv, NEW t \in Threads, NEW c \in Calls,
           th[t].op \in {"idle", "setconfig", "getconfig"},
           c.op \in {"idle", "setconfig", "getconfig"},
           c.op # "idle" => c.i \in Configs,
           th' = [th EXCEPT ![t] = c],
           config' \in {v \in Configs : v > 0} \cup {0}, cached' \in Configs,
           stale' \in BOOLEAN,
           UNCHANGED <<claimed, auto, hlock, kernel, history>>
    PROVE  /\ IfaceTypeOK' /\ LockInv' /\ IfaceCallInv' /\ Bound' /\ Marked'
           /\ th'[t] = c /\ \A u \in Threads : u # t => th'[u] = th[u]
<1>1. IfaceTypeOK'
  BY DEF IfaceInv, IfaceTypeOK, kernel, history
<1>2. th'[t] = c /\ \A u \in Threads : u # t => th'[u] = th[u]
  BY DEF IfaceInv, IfaceTypeOK
<1>3. LockInv'
  BY <1>2 DEF IfaceInv, LockInv, Locked
<1>4. IfaceCallInv'
  BY <1>2
     DEF IfaceInv, IfaceCallInv, Claimed, Released, Retaking, Trusted, Tracked, Had, kernel, history
<1>5. Bound'
  BY <1>2 DEF IfaceInv, Bound, Claimed, Tracked, kernel, history
<1>6. Marked'
  BY <1>2
     DEF IfaceInv, Marked, Released, GaveUp, Retaking, Answers, Trusted, Had, kernel, history
<1> QED
  BY <1>1, <1>2, <1>3, <1>4, <1>5, <1>6

(* A call that ends at its ioctl: refused, or failed and perhaps half done. *)
LEMMA ConfigRefused ==
    ASSUME InterfacesAssumption, IfaceInv, NEW t \in Threads, NEW r \in Codes,
           th[t].op = "idle", Return(t, r), config' \in {config, 0}, stale' \in BOOLEAN,
           ~stale' => ~stale /\ config' = config,
           UNCHANGED <<claimed, auto, hlock, kernel, history, cached>>
    PROVE  IfaceInv'
<1> DEFINE c == [Idling EXCEPT !.r = r]
<1>1. c \in Calls /\ c.op = "idle"
  BY CallTypes DEF Idling
<1>2. th' = [th EXCEPT ![t] = c]
  BY DEF Return
<1> HIDE DEF c
<1>3. config' \in {w \in Configs : w > 0} \cup {0} /\ cached' \in Configs
  BY DEF IfaceInv, IfaceTypeOK
<1>4. /\ IfaceTypeOK' /\ LockInv' /\ IfaceCallInv' /\ Bound' /\ Marked'
      /\ th'[t] = c /\ \A u \in Threads : u # t => th'[u] = th[u]
  BY <1>1, <1>2, <1>3, ConfigFrame
<1>5. ConfigInv'
  BY <1>1, <1>4 DEF IfaceInv, ConfigInv, Holding, kernel
<1> QED
  BY <1>4, <1>5 DEF IfaceInv

(* A call whose ioctl went well, or is taken to have: v waits to be cached. *)
LEMMA ConfigHeld ==
    ASSUME InterfacesAssumption, IfaceInv, NEW t \in Threads, NEW v \in Configs,
           NEW op \in {"setconfig", "getconfig"},
           th[t].op = "idle", Begin(t, op, "cache", v),
           config' \in {w \in Configs : w > 0} \cup {0}, stale' \in BOOLEAN,
           ~stale' => Selected(v) = config' /\ ~Overtaken(t, config'),
           UNCHANGED <<claimed, auto, hlock, kernel, history, cached>>
    PROVE  IfaceInv'
<1> DEFINE c == [op |-> op, pc |-> "cache", i |-> v, r |-> "ok", next |-> 0]
<1>1. c \in Calls /\ c.op = op /\ c.i = v
  BY CallTypes DEF InterfacesAssumption
<1>2. th' = [th EXCEPT ![t] = c] /\ cached' \in Configs
  BY DEF Begin, IfaceInv, IfaceTypeOK
<1> HIDE DEF c
<1>3. /\ IfaceTypeOK' /\ LockInv' /\ IfaceCallInv' /\ Bound' /\ Marked'
      /\ th'[t] = c /\ \A u \in Threads : u # t => th'[u] = th[u]
  BY <1>1, <1>2, ConfigFrame
<1>4. ASSUME ~stale'
      PROVE  \A u \in Threads : Holding(u)' => Selected(th'[u].i) = config'
  <2>1. Selected(th'[t].i) = config'
    BY <1>1, <1>3, <1>4
  <2>2. \A u \in Threads \ {t} : Holding(u) => Selected(th[u].i) = config'
    BY <1>4 DEF Overtaken
  <2> QED
    BY <1>3, <2>1, <2>2 DEF Holding
<1>5. Holding(t)'
  BY <1>1, <1>3 DEF Holding
<1>6. ConfigInv'
  BY <1>4, <1>5 DEF ConfigInv, Selected
<1> QED
  BY <1>3, <1>6 DEF IfaceInv

LEMMA SetConfigStep ==
    ASSUME InterfacesAssumption, IfaceInv, NEW t \in Threads, NEW v \in Configs,
           SetConfigIoctl(t, v)
    PROVE  IfaceInv'
<1>1. /\ th[t].op = "idle" /\ stale \in BOOLEAN
      /\ UNCHANGED <<claimed, auto, hlock, kernel, history, cached>>
  BY DEF SetConfigIoctl, May, IfaceInv, IfaceTypeOK
<1>2. CASE \E r \in Codes : Return(t, r) /\ config' = config /\ stale' = stale
  BY <1>1, <1>2, ConfigRefused
<1>3. CASE Return(t, "other") /\ config' \in {config, 0}
           /\ stale' = (stale \/ config' # config)
  <2>1. stale' \in BOOLEAN /\ (~stale' => ~stale /\ config' = config) /\ "other" \in Codes
    BY <1>3 DEF Codes
  <2> QED
    BY <1>1, <1>3, <2>1, ConfigRefused
<1>4. CASE config' = Selected(v) /\ stale' = Overtaken(t, config')
           /\ Begin(t, "setconfig", "cache", v)
  <2>1. config' \in {w \in Configs : w > 0} \cup {0}
    BY <1>4 DEF Selected
  <2>2. stale' \in BOOLEAN
    BY <1>4 DEF Overtaken
  <2>3. ~stale' => Selected(v) = config' /\ ~Overtaken(t, config')
    BY <1>4
  <2> QED
    BY <1>1, <1>4, <2>1, <2>2, <2>3, ConfigHeld
<1>5. (IF present THEN "busy" ELSE "no_device") \in Codes
  BY DEF Codes
<1> QED
  BY <1>2, <1>3, <1>4, <1>5 DEF SetConfigIoctl

LEMMA GetConfigStep ==
    ASSUME InterfacesAssumption, IfaceInv, NEW t \in Threads, GetConfigIoctl(t)
    PROVE  IfaceInv'
<1>1. /\ th[t].op = "idle" /\ stale \in BOOLEAN
      /\ config \in {w \in Configs : w > 0} \cup {0} /\ -1 \in Configs /\ Configs \subseteq Int
      /\ UNCHANGED <<claimed, auto, hlock, kernel, history, config, cached>>
  BY DEF GetConfigIoctl, May, IfaceInv, IfaceTypeOK, InterfacesAssumption
<1>2. CASE Return(t, "no_device") /\ UNCHANGED stale
  BY <1>1, <1>2, ConfigRefused DEF Codes
<1>3. CASE stale' = Overtaken(t, config)
           /\ Begin(t, "getconfig", "cache", IF config > 0 THEN config ELSE -1)
  <2>1. PICK v \in Configs : v = IF config > 0 THEN config ELSE -1
    BY <1>1
  <2>2. Selected(v) = config
    BY <1>1, <2>1 DEF Selected
  <2>3. stale' \in BOOLEAN /\ (~stale' => ~Overtaken(t, config'))
    BY <1>1, <1>3 DEF Overtaken
  <2> QED
    BY <1>1, <1>3, <2>1, <2>2, <2>3, ConfigHeld
<1>4. CASE stale' = TRUE /\ Begin(t, "getconfig", "cache", -1)
  BY <1>1, <1>4, ConfigHeld
<1> QED
  BY <1>2, <1>3, <1>4 DEF GetConfigIoctl

(* The store: what was held was right, or it is known not to be. *)
LEMMA ConfigCacheStep ==
    ASSUME InterfacesAssumption, IfaceInv, NEW t \in Threads, ConfigCache(t)
    PROVE  IfaceInv'
<1> DEFINE c == [Idling EXCEPT !.r = "ok"]
<1>1. c \in Calls /\ c.op = "idle"
  BY CallTypes DEF Idling, Codes
<1>2. /\ th[t].op \in {"setconfig", "getconfig"} /\ th' = [th EXCEPT ![t] = c]
      /\ cached' = th[t].i
      /\ UNCHANGED <<claimed, auto, hlock, kernel, history, config, stale>>
  BY DEF ConfigCache, Holding, Return
<1> HIDE DEF c
<1>3. /\ config' \in {w \in Configs : w > 0} \cup {0} /\ cached' \in Configs
      /\ stale' \in BOOLEAN
  BY <1>2 DEF IfaceInv, IfaceTypeOK
<1>4. /\ IfaceTypeOK' /\ LockInv' /\ IfaceCallInv' /\ Bound' /\ Marked'
      /\ th'[t] = c /\ \A u \in Threads : u # t => th'[u] = th[u]
  BY <1>1, <1>2, <1>3, ConfigFrame
<1>5. ConfigInv'
  BY <1>1, <1>2, <1>4 DEF IfaceInv, ConfigInv, Holding, kernel, Selected
<1> QED
  BY <1>4, <1>5 DEF IfaceInv

-----------------------------------------------------------------------------
(* The whole. *)

(* Calls that end where they begin: nothing is claimed, or nothing is kept. *)
LEMMA ShortStep ==
    ASSUME InterfacesAssumption, IfaceInv, NEW t \in Threads, NEW i \in Ifaces, UNCHANGED conf,
           \/ ClaimBegin(t, i) \/ ReleaseBegin(t, i) \/ SetAltBegin(t, i)
           \/ SetAltIoctl(t)
           \/ DetachGetDriver(t, i) \/ DetachDisconnect(t) \/ AttachDriver(t, i)
    PROVE  IfaceInv'
<1>1. owner \in [Ifaces -> Bindings] /\ snatched \subseteq Ifaces
  BY DEF IfaceInv, IfaceTypeOK, Bindings
<1>2. CASE ClaimBegin(t, i)
  <2>1. CASE i \in claimed
    BY <1>1, <1>2, <2>1, ReturnStep DEF ClaimBegin, May, Codes, kernel, history, Had
  <2>2. CASE i \notin claimed
    BY <1>2, <2>2, BeginStep DEF ClaimBegin, May
  <2> QED
    BY <2>1, <2>2
<1>3. CASE ReleaseBegin(t, i)
  <2>1. CASE i \notin claimed
    BY <1>1, <1>3, <2>1, ReturnStep DEF ReleaseBegin, May, Codes, kernel, history, Had
  <2>2. CASE i \in claimed
    BY <1>3, <2>2, BeginStep DEF ReleaseBegin, May
  <2> QED
    BY <2>1, <2>2
<1>4. CASE SetAltBegin(t, i)
  <2>1. CASE i \notin claimed
    BY <1>1, <1>4, <2>1, ReturnStep DEF SetAltBegin, May, Codes, kernel, history, Had
  <2>2. CASE i \in claimed
    BY <1>4, <2>2, BeginStep DEF SetAltBegin, May
  <2> QED
    BY <2>1, <2>2
<1>5. CASE SetAltIoctl(t)
  <2>1. CASE UNCHANGED <<owner, seen>>
    <3> DEFINE r == IF ~present THEN "no_device"
                    ELSE IF owner[th[t].i] = "usbfs" THEN "ok" ELSE "other"
    <3>1. r \in Codes /\ th[t].op = "setalt"
      BY <1>5 DEF SetAltIoctl, At, Codes
    <3>2. Return(t, r) \/ Return(t, "ok")
      BY <1>5 DEF SetAltIoctl
    <3>3. "ok" \in Codes
      BY DEF Codes
    <3> HIDE DEF r
    <3> QED
      BY <1>1, <1>5, <2>1, <3>1, <3>2, <3>3, ReturnStep DEF SetAltIoctl, Had
  <2>2. CASE /\ owner[th[t].i] = "free" /\ owner' = [owner EXCEPT ![th[t].i] = "usbfs"]
             /\ seen' = seen \cup {"late"} /\ Return(t, "ok")
    <3>1. th[t].op = "setalt" /\ "ok" \in Codes
      BY <1>5 DEF SetAltIoctl, At, Codes
    <3>2. UNCHANGED <<claimed, auto, hlock, present, oldKernel, snatched>>
      BY <1>5 DEF SetAltIoctl
    <3>3. owner' \in [Ifaces -> Bindings] /\ \A j \in Ifaces : Had(j) => Had(j)'
      BY <1>1, <2>2, <3>2 DEF Had, Bindings
    <3> QED
      BY <1>1, <2>2, <3>1, <3>2, <3>3, ReturnStep
  <2> QED
    BY <1>5, <2>1, <2>2 DEF SetAltIoctl
<1>6. CASE DetachGetDriver(t, i)
  <2>1. /\ th[t].op = "idle" /\ "not_found" \in Codes
        /\ UNCHANGED <<claimed, auto, hlock, kernel, history>>
    BY <1>6 DEF DetachGetDriver, May, Codes
  <2>2. CASE Return(t, "not_found")
    BY <1>1, <2>1, <2>2, ReturnStep DEF kernel, history, Had
  <2>3. CASE Begin(t, "detach", "disconnect", i)
    BY <2>1, <2>3, BeginStep
  <2> QED
    BY <1>6, <2>2, <2>3 DEF DetachGetDriver
<1>7. CASE AttachDriver(t, i)
  <2> DEFINE k == op_attach_kernel_driver(i)
  <2>1. k.r \in Codes /\ k.owner \in [Ifaces -> Bindings]
    BY IoctlTypes
  <2>2. \A j \in Ifaces : k.owner[j] = "usbfs" <=> owner[j] = "usbfs"
    BY DEF op_attach_kernel_driver, IfaceInv, IfaceTypeOK
  <2>3. /\ th[t].op = "idle" /\ Return(t, k.r) /\ owner' = k.owner
        /\ UNCHANGED <<claimed, auto, hlock, present, oldKernel, seen, snatched, conf>>
    BY <1>7 DEF AttachDriver, May, history
  <2> HIDE DEF k
  <2> QED
    BY <1>1, <2>1, <2>2, <2>3, ReturnStep DEF Had
<1>8. CASE DetachDisconnect(t)
  <2> DEFINE j == th[t].i
             k == disconnect(j)
  <2>1. j \in Ifaces /\ th[t].op = "detach"
    BY <1>8 DEF DetachDisconnect, At, IfaceInv, IfaceTypeOK
  <2>2. /\ owner' = k.owner /\ Snatch(j) /\ Return(t, k.r) /\ seen \subseteq seen'
        /\ UNCHANGED <<claimed, auto, hlock, present, oldKernel, conf>>
    BY <1>8 DEF DetachDisconnect
  <2>3. /\ owner' \in [Ifaces -> Bindings] /\ snatched' \subseteq Ifaces
        /\ k.r \in Codes
        /\ \A u \in Ifaces : u # j => owner'[u] = owner[u]
        /\ owner'[j] = owner[j] \/ owner'[j] = "free"
        /\ \A u \in Ifaces : Had(u) => Had(u)'
    BY <2>1, <2>2, DisconnectKeeps
  <2>4. \A u \in Ifaces : owner'[u] = "usbfs" => owner[u] = "usbfs"
    BY <2>1, <2>3
  <2> HIDE DEF j, k
  <2> QED
    BY <2>1, <2>2, <2>3, <2>4, ReturnStep
<1> QED
  BY <1>2, <1>3, <1>4, <1>5, <1>6, <1>7, <1>8

(* The steps that give the lock back. *)
LEMMA LastStep ==
    ASSUME InterfacesAssumption, IfaceInv, NEW t \in Threads, UNCHANGED conf,
           ClaimMark(t) \/ ReleaseMark(t) \/ ResetEnd(t)
    PROVE  IfaceInv'
<1>1. claimed \subseteq Ifaces /\ th[t].i \in Int /\ Ifaces \subseteq Int
  BY DEF IfaceInv, IfaceTypeOK, Calls, Ifaces
<1>2. CASE ClaimMark(t)
  <2>1. th[t].op = "claim" /\ th[t].pc = "mark" /\ th[t].i \in Ifaces /\ Locked(t)
    BY <1>2 DEF ClaimMark, At, IfaceInv, IfaceTypeOK, Locked
  <2>2. /\ hlock' = Nobody /\ Return(t, th[t].r)
        /\ claimed' = IF th[t].r = "ok" THEN claimed \cup {th[t].i} ELSE claimed
        /\ UNCHANGED <<auto, kernel, history, conf>>
    BY <1>2 DEF ClaimMark
  <2>3. \A i \in Ifaces : ~Answers(t, i)
    BY <2>1 DEF Answers, Released, GaveUp, Retaking
  <2>4. \A i \in Ifaces : Claimed(t, i) <=> i = th[t].i /\ th[t].r = "ok"
    BY <2>1 DEF Claimed
  <2> QED
    BY <1>1, <2>1, <2>2, <2>3, <2>4, EndStep
<1>3. CASE ReleaseMark(t)
  <2>1. th[t].op = "release" /\ th[t].pc = "mark" /\ th[t].i \in Ifaces /\ Locked(t)
    BY <1>3 DEF ReleaseMark, At, IfaceInv, IfaceTypeOK, Locked
  <2>2. /\ hlock' = Nobody /\ Return(t, th[t].r)
        /\ claimed' = IF th[t].r = "ok" THEN claimed \ {th[t].i} ELSE claimed
        /\ UNCHANGED <<auto, kernel, history, conf>>
    BY <1>3 DEF ReleaseMark
  <2>3. \A i \in Ifaces : ~Claimed(t, i)
    BY <2>1 DEF Claimed
  <2>4. \A i \in Ifaces : /\ Released(t, i) <=> i = th[t].i /\ th[t].r = "ok"
                          /\ Answers(t, i) <=> Released(t, i)
    BY <2>1 DEF Answers, Released, GaveUp, Retaking
  <2> QED
    BY <1>1, <2>1, <2>2, <2>3, <2>4, EndStep
<1>4. CASE ResetEnd(t)
  <2>1. /\ th[t].op = "reset" /\ Locked(t)
        /\ \/ th[t].pc = "unlock"
           \/ th[t].pc = "reclaim" /\ th[t].next = MaxInterfaces
        /\ hlock' = Nobody /\ Return(t, th[t].r)
        /\ UNCHANGED <<claimed, auto, kernel, history, conf>>
    BY <1>4 DEF ResetEnd, At, Locked
  <2>2. \A i \in Ifaces : ~Claimed(t, i) /\ ~Answers(t, i)
    BY <2>1 DEF Claimed, Answers, Released, GaveUp, Retaking, Ifaces, InterfacesAssumption
  <2> QED
    BY <1>1, <2>1, <2>2, EndStep
<1> QED
  BY <1>2, <1>3, <1>4

LEMMA InitInv == ASSUME InterfacesAssumption, IfaceInit PROVE IfaceInv
<1>1. \A t \in Threads : th[t] = Idling
  BY DEF IfaceInit
<1>2. IfaceTypeOK
  <2>1. owner \in [Ifaces -> {"free", "driver", "usbfs", "other"}]
    BY DEF IfaceInit
  <2>2. Idling \in Calls
    BY DEF Calls, Idling, InterfacesAssumption
  <2>3. th \in [Threads -> Calls]
    BY <2>2 DEF IfaceInit
  <2>4. config \in {v \in Configs : v > 0} /\ cached \in Configs /\ stale \in BOOLEAN
    <3>1. 1 \in Configs /\ -1 \in Configs /\ config = 1
      BY DEF IfaceInit, InterfacesAssumption
    <3>2. cached \in {1, -1} /\ stale \in BOOLEAN
      BY DEF IfaceInit
    <3> QED
      BY <3>1, <3>2
  <2> QED
    BY <1>1, <2>1, <2>3, <2>4 DEF IfaceInit, IfaceTypeOK, Idling
<1>3. LockInv
  BY <1>1 DEF IfaceInit, LockInv, Locked, Idling, InterfacesAssumption
<1>4. IfaceCallInv
  BY <1>1 DEF IfaceCallInv, Claimed, Released, Retaking, Idling
<1>5. Bound /\ Marked
  BY DEF IfaceInit, Bound, Marked
<1>6. ConfigInv
  BY <1>1 DEF IfaceInit, ConfigInv, Holding, Selected, Idling
<1> QED
  BY <1>2, <1>3, <1>4, <1>5, <1>6 DEF IfaceInv

LEMMA NextInv ==
    ASSUME InterfacesAssumption, IfaceInv, [IfaceNext]_ifaceVars PROVE IfaceInv'
<1>1. CASE UNCHANGED ifaceVars
  BY <1>1 DEF ifaceVars, conf, history, IfaceInv, IfaceTypeOK, LockInv, Locked, IfaceCallInv,
              Claimed, Released, Retaking, Trusted, Tracked, Had, Bound, Marked, Answers, GaveUp,
              ConfigInv, Holding
<1>2. CASE ConfigNext
  BY <1>2, SetConfigStep, GetConfigStep, ConfigCacheStep DEF ConfigNext
<1>3. CASE ClaimNext /\ UNCHANGED conf
  <2>1. CASE \E t \in Threads, i \in Ifaces :
               \/ ClaimBegin(t, i) \/ ReleaseBegin(t, i) \/ SetAltBegin(t, i)
               \/ DetachGetDriver(t, i) \/ AttachDriver(t, i)
    BY <1>3, <2>1, ShortStep
  <2>2. ASSUME NEW t \in Threads, SetAltIoctl(t) \/ DetachDisconnect(t) PROVE IfaceInv'
    <3>1. th[t].i \in Ifaces
      BY <2>2 DEF SetAltIoctl, DetachDisconnect, At, IfaceInv, IfaceTypeOK
    <3> QED
      BY <1>3, <2>2, <3>1, ShortStep
  <2>3. ASSUME NEW t \in Threads,
               \/ ClaimGetDriver(t) \/ ClaimDisconnect(t) \/ ClaimIoctl(t)
               \/ ReleaseIoctl(t) \/ ReleaseAttach(t)
        PROVE  IfaceInv'
    BY <1>3, <2>3, ClaimIoctlStep, ReleaseIoctlStep
  <2>4. ASSUME NEW t \in Threads, ClaimMark(t) \/ ReleaseMark(t) \/ ResetEnd(t) PROVE IfaceInv'
    BY <1>3, <2>4, LastStep
  <2>5. ASSUME NEW t \in Threads,
               \/ ResetBegin(t) \/ ResetGiveUp(t) \/ ResetLock(t)
               \/ ResetIoctl(t) \/ ResetSkip(t) \/ ResetGetDriver(t) \/ ResetDisconnect(t)
               \/ ResetReclaim(t)
        PROVE  IfaceInv'
    BY <1>3, <2>5, ResetBeginStep, ResetGiveUpStep, ResetLockStep, ResetIoctlStep,
       ResetDetachStep, ResetReclaimStep
  <2>6. ASSUME NEW t \in Threads, NEW enable \in BOOLEAN, SetAutoDetach(t, enable) PROVE IfaceInv'
    BY <1>3, <2>6, WorldStep DEF SetAutoDetach, kernel, Bindings, IfaceInv, IfaceTypeOK
  <2>7. ASSUME NEW i \in Ifaces, OtherClaims(i) PROVE IfaceInv'
    <3>1. /\ owner' \in [Ifaces -> Bindings]
          /\ \A j \in Ifaces : owner'[j] = "usbfs" <=> owner[j] = "usbfs"
          /\ present' \in BOOLEAN /\ auto' \in BOOLEAN
      BY <2>7 DEF OtherClaims, Bindings, IfaceInv, IfaceTypeOK
    <3> QED
      BY <1>3, <2>7, <3>1, WorldStep DEF OtherClaims
  <2>8. ASSUME Unplug PROVE IfaceInv'
    BY <1>3, <2>8, WorldStep DEF Unplug, history, Bindings, IfaceInv, IfaceTypeOK
  <2> QED
    BY <1>3, <2>1, <2>2, <2>3, <2>4, <2>5, <2>6, <2>7, <2>8 DEF ClaimNext
<1> QED
  BY <1>1, <1>2, <1>3 DEF IfaceNext

THEOREM IfaceInductive == IfaceSpec => []IfaceInv
<1>1. IfaceInit => IfaceInv
  BY InitInv, InterfacesAssumption
<1>2. IfaceInv /\ [IfaceNext]_ifaceVars => IfaceInv'
  BY NextInv, InterfacesAssumption
<1> QED
  BY <1>1, <1>2, PTL DEF IfaceSpec

(* The bits of handle->claimed_interfaces agree with the kernel between     *)
(* calls, for every number of threads and interfaces, but for what an       *)
(* alternate setting bound late, a detach took or a refused reset gave up.  *)
THEOREM ClaimsAgreeAlways == IfaceSpec => []ClaimsAgree
<1>1. IfaceInv => ClaimsAgree
  <2> SUFFICES ASSUME IfaceInv, Quiet, present, NEW i \in Ifaces
               PROVE  /\ owner[i] = "usbfs" => i \in claimed \/ "late" \in seen
                      /\ i \in claimed =>
                           owner[i] = "usbfs" \/ i \in snatched \/ "reset_failed" \in seen
    BY DEF ClaimsAgree
  <2>1. \A t \in Threads : ~Claimed(t, i) /\ ~Answers(t, i)
    BY DEF Quiet, Claimed, Answers, Released, GaveUp, Retaking
  <2> QED
    BY <2>1 DEF IfaceInv, Bound, Marked, Tracked, Trusted, Had
<1> QED
  BY <1>1, IfaceInductive, PTL

(* The cached configuration is the device's between calls, unless a call    *)
(* failed half way or held an answer of before another's change.            *)
THEOREM ConfigCachedAlways == IfaceSpec => []ConfigCached
<1>1. IfaceInv => ConfigCached
  BY DEF IfaceInv, ConfigInv, ConfigCached, Quiet, Holding
<1> QED
  BY <1>1, IfaceInductive, PTL

(* Types of every reachable state. *)
THEOREM IfaceTypeCorrect == IfaceSpec => []IfaceTypeOK
<1>1. IfaceInv => IfaceTypeOK
  BY DEF IfaceInv
<1> QED
  BY <1>1, IfaceInductive, PTL

-----------------------------------------------------------------------------
(* The kernel drivers. *)

(* Nothing has happened that excuses a driver that stays away. *)
Undisturbed == present /\ auto /\ seen = {}

\* A claim that has moved the driver out of the way, or bound the interface.
Taking(t, i) ==
  /\ th[t].op = "claim" /\ th[t].i = i
  /\ th[t].pc = "detached" \/ (th[t].pc = "mark" /\ th[t].r = "ok")

\* A release that is about to clear the mark.
Unmarking(t) == th[t].op = "release" /\ th[t].pc = "mark" /\ th[t].r = "ok"

(* Between the two ioctls of an old kernel's claim nobody drives the        *)
(* interface, and only the claim answers for it; a release brings the       *)
(* driver back before it clears the mark.                                   *)
DriverInv == Undisturbed =>
  /\ \A i \in Ifaces : owner[i] # "other"
  /\ \A i \in Drivers \ claimed : owner[i] = "driver" \/ \E t \in Threads : Taking(t, i)
  /\ \A t \in Threads : Unmarking(t) /\ th[t].i \in Drivers => owner[th[t].i] = "driver"

(* A disturbance is never forgotten. *)
LEMMA Undisturbing ==
    ASSUME IfaceInv, IfaceNext, Undisturbed'
    PROVE  Undisturbed
<1>1. CASE ConfigNext
  <2>1. present' = present /\ auto' = auto /\ seen \subseteq seen'
    BY <1>1 DEF ConfigNext, SetConfigIoctl, GetConfigIoctl, ConfigCache, kernel, history
  <2> QED
    BY <2>1 DEF Undisturbed
<1>2. CASE ClaimNext
  <2>1. seen \subseteq seen' /\ (present' => present) /\ (auto' # auto => seen' # {})
    <3>1. ASSUME NEW t \in Threads, NEW i \in Ifaces,
                 \/ ClaimBegin(t, i) \/ ReleaseBegin(t, i) \/ SetAltBegin(t, i)
                 \/ DetachGetDriver(t, i) \/ AttachDriver(t, i)
          PROVE  seen \subseteq seen' /\ present' = present /\ auto' = auto
      BY <3>1 DEF ClaimBegin, ReleaseBegin, SetAltBegin, DetachGetDriver, AttachDriver,
                  kernel, history
    <3>2. ASSUME NEW t \in Threads,
                 \/ ClaimGetDriver(t) \/ ClaimDisconnect(t) \/ ClaimIoctl(t) \/ ClaimMark(t)
                 \/ ReleaseIoctl(t) \/ ReleaseAttach(t) \/ ReleaseMark(t)
                 \/ SetAltIoctl(t) \/ DetachDisconnect(t)
          PROVE  seen \subseteq seen' /\ present' = present /\ auto' = auto
      BY <3>2 DEF ClaimGetDriver, ClaimDisconnect, ClaimIoctl, ClaimMark, ReleaseIoctl,
                  ReleaseAttach, ReleaseMark, SetAltIoctl, DetachDisconnect, kernel, history
    <3>3. ASSUME NEW t \in Threads,
                 \/ ResetBegin(t) \/ ResetGiveUp(t) \/ ResetLock(t) \/ ResetIoctl(t)
                 \/ ResetSkip(t) \/ ResetGetDriver(t) \/ ResetDisconnect(t)
                 \/ ResetReclaim(t) \/ ResetEnd(t)
          PROVE  seen \subseteq seen' /\ present' = present /\ auto' = auto
      BY <3>3 DEF ResetBegin, ResetGiveUp, ResetLock, ResetIoctl, ResetSkip, ResetGetDriver,
                  ResetDisconnect, ResetReclaim, ResetEnd, kernel, history
    <3>4. ASSUME NEW t \in Threads, NEW enable \in BOOLEAN, SetAutoDetach(t, enable)
          PROVE  /\ seen \subseteq seen' /\ present' = present
                 /\ auto' # auto => seen' # {}
      BY <3>4 DEF SetAutoDetach, kernel
    <3>5. ASSUME NEW i \in Ifaces, OtherClaims(i)
          PROVE  seen \subseteq seen' /\ present' = present /\ auto' = auto
      BY <3>5 DEF OtherClaims
    <3>6. ASSUME Unplug PROVE seen \subseteq seen' /\ (present' => present) /\ auto' = auto
      BY <3>6 DEF Unplug, history
    <3> QED
      BY <1>2, <3>1, <3>2, <3>3, <3>4, <3>5, <3>6 DEF ClaimNext
  <2> QED
    BY <2>1 DEF Undisturbed
<1> QED
  BY <1>1, <1>2 DEF IfaceNext

(* A step of a call that is neither a claim nor a release leaves the        *)
(* drivers alone but for those of marked interfaces, and unmarks only what  *)
(* has its driver.                                                          *)
LEMMA DriversKept ==
    ASSUME IfaceInv, DriverInv, Undisturbed, NEW t \in Threads,
           th[t].op \notin {"claim", "release"}, ~Unmarking(t)',
           \A u \in Threads : u # t => th'[u] = th[u],
           \A i \in Ifaces : owner'[i] # "other",
           \A i \in Drivers \ claimed : owner[i] = "driver" => owner'[i] = "driver",
           \A i \in Drivers \cap claimed :
             /\ i \in claimed' \/ owner'[i] = "driver"
             /\ owner[i] = "driver" => owner'[i] = "driver" \/ hlock = t
    PROVE  DriverInv'
<1>1. \A i \in Drivers \ claimed' : owner'[i] = "driver" \/ \E u \in Threads : Taking(u, i)'
  BY DEF DriverInv, Taking
<1>2. ASSUME NEW u \in Threads, Unmarking(u)', th'[u].i \in Drivers
      PROVE  owner'[th'[u].i] = "driver"
  <2>1. u # t /\ th'[u] = th[u]
    BY <1>2
  <2>2. Unmarking(u) /\ th[u].i \in claimed /\ hlock = u
    BY <1>2, <2>1 DEF Unmarking, IfaceInv, IfaceCallInv, LockInv, Locked
  <2> QED
    BY <1>2, <2>1, <2>2 DEF DriverInv
<1> QED
  BY <1>1, <1>2 DEF DriverInv

(* The ioctls of a claim and of a release, and the marks that follow them.  *)
LEMMA DriverClaims ==
    ASSUME InterfacesAssumption, IfaceInv, DriverInv, Undisturbed, Undisturbed',
           NEW t \in Threads,
           ClaimGetDriver(t) \/ ClaimDisconnect(t) \/ ClaimIoctl(t) \/ ClaimMark(t)
    PROVE  DriverInv'
<1> DEFINE i == th[t].i
<1>1. /\ i \in Ifaces /\ i \notin claimed /\ th[t].op = "claim"
      /\ th \in [Threads -> Calls] /\ owner \in [Ifaces -> Bindings] /\ Drivers \subseteq Ifaces
  BY DEF ClaimGetDriver, ClaimDisconnect, ClaimIoctl, ClaimMark, At, IfaceInv, IfaceTypeOK,
         IfaceCallInv, Bindings, InterfacesAssumption
<1>2. \A u \in Threads : u # t => th[u].op \notin {"claim", "release"}
  BY <1>1 DEF IfaceInv, LockInv, Locked
<1>3. owner[i] # "usbfs" \/ (th[t].pc = "mark" /\ th[t].r = "ok")
  BY <1>1, <1>2 DEF IfaceInv, Bound, Tracked, Undisturbed, Claimed
<1>4. CASE ClaimGetDriver(t) \/ ClaimDisconnect(t) \/ ClaimIoctl(t)
  <2>1. claimed' = claimed /\ present
    BY <1>4 DEF ClaimGetDriver, ClaimDisconnect, ClaimIoctl, Undisturbed
  <2>2. owner[i] \in {"free", "driver"}
    BY <1>1, <1>3, <1>4 DEF DriverInv, Bindings, ClaimGetDriver, ClaimDisconnect, ClaimIoctl, At
  <2>3. /\ \A j \in Ifaces : j # i => owner'[j] = owner[j]
        /\ \A u \in Threads : u # t => th'[u] = th[u]
        /\ owner'[i] # "other" /\ th'[t].op = "claim" /\ th'[t].i = i
        /\ owner[i] # "driver" \/ owner'[i] = "driver" \/ Taking(t, i)'
        /\ Taking(t, i) => owner'[i] = "driver" \/ Taking(t, i)'
    <3>1. CASE ClaimGetDriver(t)
      <4>1. /\ owner' = owner /\ th[t].pc = "ioctl"
            /\ \E pc : th' = [th EXCEPT ![t].pc = pc]
        BY <3>1 DEF ClaimGetDriver, Goto, At, kernel
      <4>2. /\ th'[t].op = th[t].op /\ th'[t].i = i
            /\ \A u \in Threads : u # t => th'[u] = th[u]
        BY <1>1, <4>1 DEF Calls
      <4> QED
        BY <1>1, <2>2, <4>1, <4>2 DEF Taking
    <3>2. CASE ClaimDisconnect(t)
      <4> DEFINE k == disconnect(i)
      <4>1. /\ owner' = k.owner
            /\ th' = [th EXCEPT ![t].pc = IF k.r = "no_device" THEN "mark" ELSE "detached",
                                ![t].r = k.r]
        BY <3>2 DEF ClaimDisconnect
      <4>2. /\ k.r # "no_device" /\ k.owner[i] = "free"
            /\ \A j \in Ifaces : j # i => k.owner[j] = owner[j]
        BY <1>1, <2>1, <2>2 DEF disconnect
      <4> HIDE DEF k
      <4>3. /\ th'[t].op = th[t].op /\ th'[t].i = i /\ th'[t].pc = "detached"
            /\ \A u \in Threads : u # t => th'[u] = th[u]
        BY <1>1, <4>1, <4>2 DEF Calls
      <4> QED
        BY <1>1, <4>1, <4>2, <4>3 DEF Taking
    <3>3. CASE ClaimIoctl(t)
      <4>1. PICK k \in {disconnect_and_claim(i), claim_interface(i)} :
              owner' = k.owner /\ th' = [th EXCEPT ![t].pc = "mark", ![t].r = k.r]
        BY <3>3 DEF ClaimIoctl
      <4>2. /\ (k.r = "ok" /\ k.owner[i] = "usbfs") \/ k.owner[i] = "driver"
            /\ \A j \in Ifaces : j # i => k.owner[j] = owner[j]
        BY <1>1, <2>1, <2>2 DEF disconnect_and_claim, claim_interface
      <4>3. /\ th'[t].op = th[t].op /\ th'[t].i = i /\ th'[t].pc = "mark" /\ th'[t].r = k.r
            /\ \A u \in Threads : u # t => th'[u] = th[u]
        BY <1>1, <4>1 DEF Calls
      <4> QED
        BY <1>1, <4>1, <4>2, <4>3 DEF Taking
    <3> QED
      BY <1>4, <3>1, <3>2, <3>3
  <2>4. \A j \in Ifaces : owner'[j] # "other"
    BY <2>3 DEF DriverInv
  <2>5. \A j \in Drivers \ claimed' : owner'[j] = "driver" \/ \E u \in Threads : Taking(u, j)'
    BY <1>1, <1>2, <2>1, <2>3 DEF DriverInv, Taking
  <2>6. \A u \in Threads : ~Unmarking(u)'
    BY <1>2, <2>3 DEF Unmarking
  <2> QED
    BY <2>4, <2>5, <2>6 DEF DriverInv
<1>5. CASE ClaimMark(t)
  <2>1. /\ owner' = owner /\ claimed \subseteq claimed'
        /\ th[t].r = "ok" => i \in claimed'
        /\ th' = [th EXCEPT ![t] = [Idling EXCEPT !.r = th[t].r]]
    BY <1>5 DEF ClaimMark, kernel, Return
  <2>2. /\ th'[t].op = "idle"
        /\ \A u \in Threads : u # t => th'[u] = th[u]
    BY <1>1, <2>1 DEF Idling
  <2>3. \A u \in Threads : ~Unmarking(u)'
    BY <1>2, <2>2 DEF Unmarking
  <2>4. \A j \in Drivers \ claimed' : owner'[j] = "driver"
    BY <1>2, <1>5, <2>1 DEF DriverInv, Taking, ClaimMark, At
  <2> QED
    BY <2>1, <2>3, <2>4 DEF DriverInv
<1> QED
  BY <1>4, <1>5

LEMMA DriverReleases ==
    ASSUME InterfacesAssumption, IfaceInv, DriverInv, Undisturbed, Undisturbed',
           NEW t \in Threads, ReleaseIoctl(t) \/ ReleaseAttach(t) \/ ReleaseMark(t)
    PROVE  DriverInv'
<1> DEFINE i == th[t].i
<1>1. /\ i \in Ifaces /\ i \in claimed /\ th[t].op = "release"
      /\ th \in [Threads -> Calls] /\ owner \in [Ifaces -> Bindings] /\ Drivers \subseteq Ifaces
  BY DEF ReleaseIoctl, ReleaseAttach, ReleaseMark, At, IfaceInv, IfaceTypeOK, IfaceCallInv, Bindings,
         InterfacesAssumption
<1>2. \A u \in Threads : u # t => th[u].op \notin {"claim", "release"}
  BY <1>1 DEF IfaceInv, LockInv, Locked
<1>3. \A u \in Threads, j \in Ifaces : ~Taking(u, j)
  BY <1>1, <1>2 DEF Taking
<1>4. \A j \in Drivers \ claimed : owner[j] = "driver"
  BY <1>1, <1>3 DEF DriverInv
<1>5. CASE ReleaseIoctl(t)
  <2> DEFINE k == release_interface(i)
             pc == IF k.r = "ok" /\ auto THEN "attach" ELSE "mark"
  <2>1. /\ owner' = k.owner /\ th' = [th EXCEPT ![t].pc = pc, ![t].r = k.r]
        /\ claimed' = claimed
    BY <1>5 DEF ReleaseIoctl
  <2>2. /\ k.owner[i] # "other" \/ k.owner[i] = owner[i]
        /\ \A j \in Ifaces : j # i => k.owner[j] = owner[j]
    BY <1>1 DEF release_interface
  <2>3. pc = "mark" => k.r # "ok"
    BY DEF Undisturbed
  <2> HIDE DEF k, pc
  <2>4. /\ th'[t].op = th[t].op /\ th'[t].pc = pc /\ th'[t].r = k.r
        /\ \A u \in Threads : u # t => th'[u] = th[u]
    BY <1>1, <2>1 DEF Calls
  <2>5. \A u \in Threads : ~Unmarking(u)'
    BY <1>2, <2>3, <2>4 DEF Unmarking
  <2>6. /\ \A j \in Ifaces : owner'[j] # "other"
        /\ \A j \in Drivers \ claimed' : owner'[j] = "driver"
    BY <1>1, <1>4, <2>1, <2>2 DEF DriverInv
  <2> QED
    BY <2>5, <2>6 DEF DriverInv
<1>6. CASE ReleaseAttach(t)
  <2> DEFINE k == op_attach_kernel_driver(i)
  <2>1. /\ owner' = k.owner /\ th' = [th EXCEPT ![t].pc = "mark"] /\ claimed' = claimed
    BY <1>6 DEF ReleaseAttach, Goto
  <2>2. owner[i] # "usbfs" \/ th[t].r # "ok"
    BY <1>1, <1>6 DEF IfaceInv, IfaceCallInv, Released, Tracked, Undisturbed, ReleaseAttach, At
  <2>3. owner[i] # "other" /\ present
    BY <1>1 DEF DriverInv, Undisturbed
  <2>4. /\ k.owner[i] # "other"
        /\ \A j \in Ifaces : j # i => k.owner[j] = owner[j]
        /\ i \in Drivers /\ th[t].r = "ok" => k.owner[i] = "driver"
    BY <1>1, <2>2, <2>3 DEF op_attach_kernel_driver, Bindings
  <2> HIDE DEF k
  <2>5. /\ th'[t].i = i /\ th'[t].r = th[t].r
        /\ \A u \in Threads : u # t => th'[u] = th[u]
    BY <1>1, <2>1 DEF Calls
  <2>6. \A u \in Threads : Unmarking(u)' => u = t /\ th[t].r = "ok"
    BY <1>2, <2>5 DEF Unmarking
  <2>7. /\ \A j \in Ifaces : owner'[j] # "other"
        /\ \A j \in Drivers \ claimed' : owner'[j] = "driver"
    BY <1>1, <1>4, <2>1, <2>4 DEF DriverInv
  <2> QED
    BY <2>1, <2>4, <2>5, <2>6, <2>7 DEF DriverInv
<1>7. CASE ReleaseMark(t)
  <2>1. /\ owner' = owner
        /\ claimed' = IF th[t].r = "ok" THEN claimed \ {i} ELSE claimed
        /\ th' = [th EXCEPT ![t] = [Idling EXCEPT !.r = th[t].r]]
        /\ th[t].r = "ok" => Unmarking(t)
    BY <1>7 DEF ReleaseMark, kernel, Return, Unmarking, At
  <2>2. /\ th'[t].op = "idle"
        /\ \A u \in Threads : u # t => th'[u] = th[u]
    BY <1>1, <2>1 DEF Idling
  <2>3. \A u \in Threads : ~Unmarking(u)'
    BY <1>2, <2>2 DEF Unmarking
  <2>4. \A j \in Drivers \ claimed' : owner'[j] = "driver"
    BY <1>4, <2>1 DEF DriverInv
  <2> QED
    BY <2>1, <2>3, <2>4 DEF DriverInv
<1> QED
  BY <1>5, <1>6, <1>7

(* A reset touches what is marked, and takes it back, or its driver has     *)
(* been let in again and it is unmarked.                                    *)
LEMMA DriverResets ==
    ASSUME InterfacesAssumption, IfaceInv, DriverInv, Undisturbed, Undisturbed',
           NEW t \in Threads, UNCHANGED conf,
           \/ ResetBegin(t) \/ ResetGiveUp(t) \/ ResetLock(t) \/ ResetIoctl(t)
           \/ ResetSkip(t) \/ ResetGetDriver(t) \/ ResetDisconnect(t)
           \/ ResetReclaim(t) \/ ResetEnd(t)
    PROVE  DriverInv'
<1>1. /\ th \in [Threads -> Calls] /\ owner \in [Ifaces -> Bindings]
      /\ claimed \subseteq Ifaces /\ Drivers \subseteq Ifaces
      /\ \A i \in Ifaces : owner[i] # "other"
  BY DEF IfaceInv, IfaceTypeOK, Bindings, InterfacesAssumption, DriverInv
<1>2. /\ th[t].op \notin {"claim", "release"} /\ ~Unmarking(t)'
      /\ \A u \in Threads : u # t => th'[u] = th[u]
  <2>1. CASE ResetBegin(t) \/ ResetEnd(t)
    <3>1. /\ th[t].op \in {"idle", "reset"}
          /\ \/ th' = [th EXCEPT ![t] = [Idling EXCEPT !.r = th[t].r]]
             \/ th' = [th EXCEPT ![t] = [op |-> "reset", pc |-> "giveup", i |-> 0,
                                         r |-> "ok", next |-> 0]]
      BY <2>1 DEF ResetBegin, ResetEnd, May, Begin, Return, At
    <3> QED
      BY <1>1, <3>1 DEF Idling, Unmarking
  <2>2. CASE \/ ResetGiveUp(t) \/ ResetLock(t) \/ ResetIoctl(t)
             \/ ResetSkip(t) \/ ResetGetDriver(t) \/ ResetDisconnect(t) \/ ResetReclaim(t)
    BY <2>2, ResetFrame DEF Resetting, Unmarking
  <2> QED
    BY <2>1, <2>2
<1>3. /\ \A i \in Ifaces : owner'[i] # "other"
      /\ \A i \in Drivers \ claimed : owner[i] = "driver" => owner'[i] = "driver"
      /\ \A i \in Drivers \cap claimed :
           /\ i \in claimed' \/ owner'[i] = "driver"
           /\ owner[i] = "driver" => owner'[i] = "driver" \/ hlock = t
  <2>1. CASE ResetBegin(t) \/ ResetEnd(t) \/ ResetLock(t) \/ ResetSkip(t) \/ ResetGetDriver(t)
    BY <1>1, <2>1 DEF ResetBegin, ResetEnd, ResetLock, ResetSkip, ResetGetDriver, kernel
  <2>2. CASE ResetGiveUp(t)
    <3>1. /\ claimed' = claimed
          /\ owner' \in {owner, release_interface(th[t].next).owner}
      BY <2>2 DEF ResetGiveUp
    <3> QED
      BY <1>1, <3>1 DEF release_interface
  <2>3. CASE ResetIoctl(t)
    <3>1. claimed' = claimed
      BY <2>3 DEF ResetIoctl
    <3>2. CASE UNCHANGED owner
      BY <1>1, <3>1, <3>2
    <3>3. ASSUME NEW bound \in SUBSET Drivers,
                 owner' = [i \in Ifaces |-> IF owner[i] # "usbfs" THEN owner[i]
                                            ELSE IF i \in bound THEN "driver" ELSE "free"]
          PROVE  /\ \A i \in Ifaces : owner'[i] # "other"
                 /\ \A i \in Drivers : owner[i] = "driver" => owner'[i] = "driver"
      BY <1>1, <3>3
    <3> QED
      BY <2>3, <3>1, <3>2, <3>3 DEF ResetIoctl
  <2>4. CASE ResetDisconnect(t) \/ ResetReclaim(t)
    <3> DEFINE i == th[t].next
    <3>0. /\ i \in Ifaces /\ th[t].op = "reset"
          /\ th[t].pc \in {"reclaim", "disconnect", "detached"}
      BY <2>4, ResetTakeStep
    <3>1. /\ i \in Ifaces /\ i \in claimed /\ i >= i /\ hlock = t
          /\ th[t].op = "reset" /\ th[t].pc \in {"reclaim", "disconnect", "detached"}
      <4>1. i >= i
        BY <3>0 DEF Ifaces
      <4>2. hlock = t
        BY <3>0 DEF IfaceInv, LockInv, Locked
      <4>3. i \in claimed
        BY <2>4 DEF ResetDisconnect, ResetReclaim, At, IfaceInv, IfaceCallInv
      <4> QED
        BY <3>0, <4>1, <4>2, <4>3
    <3>2. owner[i] # "usbfs" /\ owner[i] # "other" /\ present
      BY <1>1, <3>1 DEF IfaceInv, IfaceCallInv, Retaking, Tracked, Undisturbed
    <3>3. /\ \A j \in Ifaces : j # i => owner'[j] = owner[j] /\ (j \in claimed => j \in claimed')
          /\ owner'[i] # "other" /\ (i \in claimed' \/ owner'[i] = "driver")
      <4>1. CASE ResetDisconnect(t)
        <5>1. disconnect(i).r # "no_device" /\ disconnect(i).owner \in {owner, [owner EXCEPT ![i] = "free"]}
          BY <3>2 DEF disconnect
        <5>2. owner' = disconnect(i).owner /\ claimed' = claimed
          BY <4>1, <5>1 DEF ResetDisconnect
        <5> QED
          BY <1>1, <3>1, <5>1, <5>2
      <4>2. CASE ResetReclaim(t)
        <5>1. PICK k \in {claim_interface(i), disconnect_and_claim(i)} :
                /\ owner' = k.owner
                /\ claimed' = IF k.r = "ok" THEN claimed ELSE claimed \ {i}
          BY <4>2 DEF ResetReclaim, ResetTaken
        <5>3. owner[i] \in {"free", "driver"}
          BY <1>1, <3>1, <3>2 DEF Bindings
        <5>4. \/ claim_interface(i).r = "ok"
                 /\ claim_interface(i).owner = [owner EXCEPT ![i] = "usbfs"]
              \/ claim_interface(i).owner = owner /\ owner[i] = "driver"
          BY <3>2, <5>3 DEF claim_interface
        <5>5. /\ disconnect_and_claim(i).r = "ok"
              /\ disconnect_and_claim(i).owner = [owner EXCEPT ![i] = "usbfs"]
          BY <3>2, <5>3 DEF disconnect_and_claim
        <5>2. \/ k.r = "ok" /\ k.owner = [owner EXCEPT ![i] = "usbfs"]
              \/ k.owner = owner /\ owner[i] = "driver"
          BY <5>1, <5>4, <5>5
        <5> QED
          BY <1>1, <3>1, <5>1, <5>2
      <4> QED
        BY <2>4, <4>1, <4>2
    <3> QED
      BY <1>1, <3>1, <3>3
  <2> QED
    BY <2>1, <2>2, <2>3, <2>4
<1> QED
  BY <1>2, <1>3, DriversKept

(* The other calls, and the world. *)
LEMMA DriverOthers ==
    ASSUME InterfacesAssumption, IfaceInv, DriverInv, Undisturbed, Undisturbed',
           NEW t \in Threads, NEW i \in Ifaces,
           \/ ClaimBegin(t, i) \/ ReleaseBegin(t, i) \/ SetAltBegin(t, i) \/ SetAltIoctl(t)
           \/ DetachGetDriver(t, i) \/ DetachDisconnect(t) \/ AttachDriver(t, i)
           \/ GetConfigIoctl(t) \/ ConfigCache(t)
           \/ (\E v \in Configs : SetConfigIoctl(t, v))
    PROVE  DriverInv'
<1>1. /\ th \in [Threads -> Calls] /\ owner \in [Ifaces -> Bindings]
      /\ \A j \in Ifaces : owner[j] # "other"
  BY DEF IfaceInv, IfaceTypeOK, Bindings, DriverInv
<1>2. /\ th[t].op \notin {"claim", "release"} /\ claimed' = claimed
      /\ \/ \E r : Return(t, r)
         \/ \E op, pc, v : Begin(t, op, pc, v) /\ pc # "mark"
  BY DEF ClaimBegin, ReleaseBegin, SetAltBegin, SetAltIoctl, DetachGetDriver, DetachDisconnect,
         AttachDriver, GetConfigIoctl, ConfigCache, SetConfigIoctl, Holding, May, At
<1>3. ~Unmarking(t)' /\ \A u \in Threads : u # t => th'[u] = th[u]
  BY <1>1, <1>2 DEF Return, Begin, Idling, Unmarking
<1>4. \/ owner' = owner
      \/ owner' = op_attach_kernel_driver(i).owner
  <2>1. CASE DetachDisconnect(t)
    BY <2>1 DEF DetachDisconnect, disconnect, Undisturbed
  <2>2. CASE SetAltIoctl(t)
    BY <2>2 DEF SetAltIoctl, Undisturbed
  <2> QED
    BY <2>1, <2>2 DEF ClaimBegin, ReleaseBegin, SetAltBegin, DetachGetDriver, AttachDriver,
                      GetConfigIoctl, ConfigCache, SetConfigIoctl, kernel
<1>5. \A j \in Ifaces : owner'[j] # "other" /\ (owner[j] = "driver" => owner'[j] = "driver")
  BY <1>1, <1>4 DEF op_attach_kernel_driver
<1> QED
  BY <1>2, <1>3, <1>5, DriversKept DEF InterfacesAssumption

LEMMA DriverNext ==
    ASSUME InterfacesAssumption, IfaceInv, DriverInv, [IfaceNext]_ifaceVars
    PROVE  DriverInv'
<1>1. CASE UNCHANGED ifaceVars
  BY <1>1 DEF ifaceVars, history, DriverInv, Undisturbed, Taking, Unmarking
<1>2. CASE IfaceNext
  <2> SUFFICES ASSUME Undisturbed, Undisturbed' PROVE DriverInv'
    BY <1>2, Undisturbing DEF DriverInv
  <2> USE DEF Undisturbed
  <2>1. CASE ConfigNext
    <3>1. PICK t \in Threads : \/ \E v \in Configs : SetConfigIoctl(t, v)
                               \/ GetConfigIoctl(t) \/ ConfigCache(t)
      BY <2>1 DEF ConfigNext
    <3>2. CASE Ifaces = {}
      BY <3>2, <3>1 DEF DriverInv
    <3> QED
      BY <3>1, <3>2, DriverOthers
  <2>2. CASE ClaimNext /\ UNCHANGED conf
    <3>1. CASE \E t \in Threads, i \in Ifaces :
                 \/ ClaimBegin(t, i) \/ ReleaseBegin(t, i) \/ SetAltBegin(t, i)
                 \/ DetachGetDriver(t, i) \/ AttachDriver(t, i)
      BY <3>1, DriverOthers
    <3>2. ASSUME NEW t \in Threads, SetAltIoctl(t) \/ DetachDisconnect(t) PROVE DriverInv'
      <4>1. th[t].i \in Ifaces
        BY <3>2 DEF SetAltIoctl, DetachDisconnect, At, IfaceInv, IfaceTypeOK
      <4> QED
        BY <3>2, <4>1, DriverOthers
    <3>3. CASE \E t \in Threads :
                 ClaimGetDriver(t) \/ ClaimDisconnect(t) \/ ClaimIoctl(t) \/ ClaimMark(t)
      BY <3>3, DriverClaims
    <3>4. CASE \E t \in Threads : ReleaseIoctl(t) \/ ReleaseAttach(t) \/ ReleaseMark(t)
      BY <3>4, DriverReleases
    <3>5. CASE \E t \in Threads :
                 \/ ResetBegin(t) \/ ResetGiveUp(t) \/ ResetLock(t) \/ ResetIoctl(t)
                 \/ ResetSkip(t) \/ ResetGetDriver(t) \/ ResetDisconnect(t)
                 \/ ResetReclaim(t) \/ ResetEnd(t)
      BY <2>2, <3>5, DriverResets
    <3>6. ASSUME NEW t \in Threads, NEW enable \in BOOLEAN, SetAutoDetach(t, enable)
          PROVE  DriverInv'
      BY <3>6 DEF SetAutoDetach, kernel, DriverInv, Taking, Unmarking
    <3>7. CASE \E i \in Ifaces : OtherClaims(i)
      BY <3>7 DEF OtherClaims
    <3>8. CASE Unplug
      BY <3>8 DEF Unplug, history
    <3> QED
      BY <2>2, <3>1, <3>2, <3>3, <3>4, <3>5, <3>6, <3>7, <3>8 DEF ClaimNext
  <2> QED
    BY <1>2, <2>1, <2>2 DEF IfaceNext
<1> QED
  BY <1>1, <1>2

(* With automatic detaching, an interface that had a kernel driver has it   *)
(* again, or is claimed, whenever no call is running and nothing disturbed  *)
(* it: for any number of threads that claim, release and reset at once, on  *)
(* kernels with and without disconnect-and-claim.                           *)
THEOREM DriverReturnedAlways == IfaceSpec => []DriverReturned
<1>1. IfaceInit => DriverInv
  BY InterfacesAssumption DEF IfaceInit, DriverInv, Unmarking, Idling, InterfacesAssumption
<1>2. IfaceInv /\ DriverInv /\ [IfaceNext]_ifaceVars => DriverInv'
  BY DriverNext, InterfacesAssumption
<1>3. DriverInv => DriverReturned
  BY DEF DriverInv, DriverReturned, Undisturbed, Quiet, Taking
<1> QED
  BY <1>1, <1>2, <1>3, IfaceInductive, PTL DEF IfaceSpec

-----------------------------------------------------------------------------
(***************************************************************************)
(* UsbDevices for any number of threads, contexts, devices and handles:    *)
(* no context is freed under a thread that holds it, and the counters that *)
(* decide what is freed are exact.                                         *)
(*                                                                         *)
(* A context belongs to the one thread that made it, unless it is the      *)
(* default one; a context that is being made or torn down is referred to   *)
(* by nothing but the call that does it (Alone).                           *)
(***************************************************************************)

Holds(u) == token[u] # NoToken

Starting(u) == step[u].at \in {"init_named", "init_default"}

Building(u) == Starting(u) \/ Tearing(u)

Fin == IsFiniteSet(handles) /\ IsFiniteSet(appRefs)

\* Whose context is ready, and who may share it.
TokenInv == \A u \in Users :
  /\ Holds(u) => token[u].ctx \in ready
  /\ Holds(u) /\ ~token[u].named => token[u].ctx = default
  /\ \A v \in Users : Holds(u) /\ Holds(v) /\ u # v /\ token[u].ctx = token[v].ctx
       => token[u].ctx = default

Alone(u) ==
  /\ ~Holds(u)
  /\ step[u].ctx \in contexts
  /\ \A v \in Users : Holds(v) => token[v].ctx # step[u].ctx
  /\ \A v \in Users : Building(v) /\ v # u => step[v].ctx # step[u].ctx

\* What a thread inside a call relies on.
DevCallInv == \A u \in Users :
  /\ Building(u) => Alone(u)
  /\ Starting(u) => defLock = u
  /\ In(u, "init_default") => step[u].ctx = default
  /\ In(u, "exit") => Holds(u) /\ step[u].ctx = token[u].ctx /\ \A h \in handles : h.user # u
  /\ In(u, "teardown") => step[u].ctx \in ready /\ step[u].ctx # default
  /\ In(u, "teardown_default") =>
       defLock = u /\ step[u].ctx = default /\ step[u].ctx \in ready
  /\ In(u, "open") =>
       Holds(u) /\ step[u].dev \in 1..made.devices /\ home[step[u].dev] = token[u].ctx
  /\ defLock = u => Starting(u) \/ In(u, "teardown_default")

\* Handles and callbacks live in the contexts of those who made them.
ObjectInv ==
  /\ \A h \in handles : Holds(h.user) /\ token[h.user].ctx = h.ctx
  /\ \A k \in callbacks : k.ctx \in ready /\ \A u \in Users : Starting(u) => k.ctx # step[u].ctx

\* The default context is ready, or being made.
DefaultInv ==
  default # None => default \in ready \/ \E u \in Users : Starting(u) /\ step[u].ctx = default

CtxInv == TokenInv /\ DevCallInv /\ ObjectInv /\ DefaultInv

\* A device is freed by one thread, after its last reference.
FreeInv == \A u \in Users :
  /\ step[u].at \in {"open", "free"} => step[u].dev \in 1..made.devices
  /\ In(u, "free") => refs[step[u].dev] = 0 /\ step[u].dev \notin freed
  /\ \A v \in Users : In(u, "free") /\ In(v, "free") /\ u # v => step[u].dev # step[v].dev

HandlesOf(d) == {h \in handles : h.dev = d}

AppsOf(d) == {a \in appRefs : a.dev = d}

RefInv == \A d \in 1..made.devices :
  /\ refs[d] = Cardinality(HandlesOf(d)) + Cardinality(AppsOf(d)) + Cardinality(Opening(d))
  /\ d \in freed => refs[d] = 0

Typed == DevTypeOK /\ Fin

DevInv == Typed /\ CtxInv /\ ContextCountsExact /\ FreeInv /\ RefInv

-----------------------------------------------------------------------------
(* Sets, and where a thread is after a step. *)

LEMMA AddOne ==
    ASSUME NEW S, IsFiniteSet(S), NEW x, x \notin S
    PROVE  IsFiniteSet(S \cup {x}) /\ Cardinality(S \cup {x}) = Cardinality(S) + 1
  BY FS_AddElement

LEMMA DropOne ==
    ASSUME NEW S, IsFiniteSet(S), NEW x, x \in S
    PROVE  IsFiniteSet(S \ {x}) /\ Cardinality(S \ {x}) = Cardinality(S) - 1
  BY FS_RemoveElement

LEMMA Fresh ==
    ASSUME NEW n \in Nat, NEW C, C \subseteq 1..n
    PROVE  n + 1 \in Nat /\ n + 1 # 0 /\ n + 1 \notin C /\ 0 \notin C
  OBVIOUS

LEMMA Sizes ==
    ASSUME Typed
    PROVE  /\ IsFiniteSet(Users) /\ IsFiniteSet(ready) /\ IsFiniteSet(DefaultUsers)
           /\ \A d : /\ IsFiniteSet(HandlesOf(d)) /\ Cardinality(HandlesOf(d)) \in Nat
                     /\ IsFiniteSet(AppsOf(d)) /\ Cardinality(AppsOf(d)) \in Nat
                     /\ IsFiniteSet(Opening(d)) /\ Cardinality(Opening(d)) \in Nat
  <1>1. IsFiniteSet(Users)
    BY DeviceConstants
  <1>2. IsFiniteSet(ready)
    <2>1. made.contexts \in Nat
      BY DEF Typed, DevTypeOK
    <2>2. IsFiniteSet(1..made.contexts)
      BY <2>1, FS_Interval
    <2> QED
      BY <2>2, FS_Subset DEF Typed, DevTypeOK
  <1>3. IsFiniteSet(DefaultUsers)
    BY <1>1, FS_Subset DEF DefaultUsers
  <1>4. ASSUME NEW d
        PROVE  /\ IsFiniteSet(HandlesOf(d)) /\ IsFiniteSet(AppsOf(d)) /\ IsFiniteSet(Opening(d))
    <2>1. HandlesOf(d) \in SUBSET handles /\ AppsOf(d) \in SUBSET appRefs
             /\ Opening(d) \in SUBSET Users
      BY DEF HandlesOf, AppsOf, Opening
    <2> QED
      BY <1>1, <2>1, FS_Subset DEF Typed, Fin
  <1> QED
    BY <1>1, <1>2, <1>3, <1>4, FS_CardinalityType

LEMMA EnterStep ==
    ASSUME DevTypeOK, NEW u \in Users, NEW at, NEW ctx, NEW dev, Enter(u, at, ctx, dev)
    PROVE  /\ step'[u].at = at /\ step'[u].ctx = ctx /\ step'[u].dev = dev
           /\ \A v \in Users : v # u => step'[v] = step[v]
  BY DEF Enter, DevTypeOK

LEMMA LeaveStep ==
    ASSUME DevTypeOK, NEW u \in Users, Leave(u)
    PROVE  /\ step'[u].at = "out" /\ step'[u].ctx = None /\ step'[u].dev = None
           /\ \A v \in Users : v # u => step'[v] = step[v]
  BY DEF Leave, Out, DevTypeOK

LEMMA UnrefStep ==
    ASSUME DevTypeOK, NEW u \in Users, NEW d \in 1..made.devices, Unref(u, d)
    PROVE  /\ step'[u].at \in {"out", "free"} /\ step'[u].dev \in {None, d}
           /\ step'[u].at = "free" <=> refs[d] = 1
           /\ step'[u].at = "free" => step'[u].dev = d
           /\ \A v \in Users : v # u => step'[v] = step[v]
           /\ refs' = [refs EXCEPT ![d] = @ - 1]
  BY EnterStep, LeaveStep DEF Unref

LEMMA Start ==
    ASSUME DevInit
    PROVE  DevInv
  <1>1. Typed
    BY FS_EmptySet, DeviceConstants
    DEF DevInit, Typed, DevTypeOK, Fin, NoToken, Out, None, Places
  <1>2. CtxInv
    BY DeviceConstants DEF DevInit, CtxInv, TokenInv, DevCallInv, ObjectInv, DefaultInv, Holds, NoToken, Building, Starting,
       Tearing, In, Out, None
  <1>3. ContextCountsExact
    BY FS_EmptySet DEF DevInit, ContextCountsExact
  <1>4. FreeInv /\ RefInv
    BY DEF DevInit, FreeInv, RefInv, In, Out
  <1> QED
    BY <1>1, <1>2, <1>3, <1>4 DEF DevInv

-----------------------------------------------------------------------------
(* Contexts. *)

(* A call on devices, handles or callbacks leaves the contexts to those    *)
(* who hold them: what it makes is in the caller's own context.            *)
LEMMA ObjectStep ==
    ASSUME Typed, CtxInv, NEW u \in Users, UNCHANGED ctxVars,
           made'.contexts = made.contexts, made'.devices \in Nat, made'.devices >= made.devices,
           \A v \in Users : v # u => step'[v] = step[v],
           step[u].at \in {"out", "open", "free"},
           step'[u].at \in {"out", "open", "free"},
           step'[u].at = "open" =>
             Holds(u) /\ step'[u].dev \in 1..made'.devices /\ home'[step'[u].dev] = token[u].ctx,
           \A d \in 1..made.devices : home'[d] = home[d],
           \A h \in handles' : h \in handles \/
             (h.user = u /\ Holds(u) /\ h.ctx = token[u].ctx),
           \A k \in callbacks' :
             (\E j \in callbacks : j.ctx = k.ctx) \/ (Holds(u) /\ k.ctx = token[u].ctx)
    PROVE  CtxInv'
  <1>1. /\ contexts' = contexts /\ ready' = ready /\ default' = default
        /\ defLock' = defLock /\ token' = token
    BY DEF ctxVars
  <1>2. made.devices \in Nat
    BY DEF Typed, DevTypeOK
  <1>3. TokenInv'
    BY <1>1 DEF CtxInv, TokenInv, Holds
  <1>4. \A v \in Users : /\ Starting(v)' <=> Starting(v)
                         /\ Tearing(v)' <=> Tearing(v)
                         /\ Building(v)' <=> Building(v)
                         /\ Holds(v)' <=> Holds(v)
                         /\ Building(v) => step'[v] = step[v]
    BY <1>1 DEF Starting, Tearing, Building, Holds
  <1>5. \A v \in Users : Alone(v) /\ Building(v) => Alone(v)'
    BY <1>1, <1>4 DEF Alone
  <1>6. ASSUME NEW v \in Users
        PROVE  /\ Building(v)' => Alone(v)'
               /\ Starting(v)' => defLock' = v
               /\ In(v, "init_default")' => step'[v].ctx = default'
               /\ In(v, "teardown")' => step'[v].ctx \in ready' /\ step'[v].ctx # default'
               /\ In(v, "teardown_default")' =>
                    defLock' = v /\ step'[v].ctx = default' /\ step'[v].ctx \in ready'
               /\ defLock' = v => Starting(v)' \/ In(v, "teardown_default")'
    <2>1. CASE v = u
      <3>1. ~Building(v)' /\ ~Building(v)
        BY <1>4, <2>1 DEF Building, Starting, Tearing
      <3> QED
        BY <1>1, <1>4, <3>1 DEF CtxInv, DevCallInv, In, Building, Starting, Tearing
    <2>2. CASE v # u
      BY <1>1, <1>4, <1>5, <2>2 DEF CtxInv, DevCallInv, In
    <2> QED
      BY <2>1, <2>2
  <1>7. ASSUME NEW v \in Users, In(v, "exit")'
        PROVE  Holds(v)' /\ step'[v].ctx = token'[v].ctx /\ \A h \in handles' : h.user # v
    <2>1. v # u /\ In(v, "exit") /\ step'[v] = step[v]
      BY <1>7 DEF In
    <2> QED
      BY <1>1, <1>4, <2>1 DEF CtxInv, DevCallInv
  <1>8. ASSUME NEW v \in Users, In(v, "open")'
        PROVE  /\ Holds(v)' /\ step'[v].dev \in 1..made'.devices
               /\ home'[step'[v].dev] = token'[v].ctx
    <2>1. CASE v = u
      BY <1>1, <1>4, <1>8, <2>1 DEF In
    <2>2. CASE v # u
      <3>1. step'[v] = step[v] /\ In(v, "open")
        BY <1>8, <2>2 DEF In
      <3>2. Holds(v) /\ step[v].dev \in 1..made.devices /\ home[step[v].dev] = token[v].ctx
        BY <3>1 DEF CtxInv, DevCallInv
      <3> QED
        BY <1>1, <1>2, <1>4, <3>1, <3>2
    <2> QED
      BY <2>1, <2>2
  <1>9. ObjectInv'
    <2>1. \A h \in handles' : Holds(h.user)' /\ token'[h.user].ctx = h.ctx
      BY <1>1 DEF CtxInv, ObjectInv, Holds
    <2>2. ASSUME NEW k \in callbacks'
          PROVE  k.ctx \in ready' /\ \A v \in Users : Starting(v)' => k.ctx # step'[v].ctx
      <3>1. CASE \E j \in callbacks : j.ctx = k.ctx
        BY <1>1, <1>4, <3>1 DEF CtxInv, ObjectInv, Building
      <3>2. CASE Holds(u) /\ k.ctx = token[u].ctx
        <4>1. k.ctx \in ready
          BY <3>2 DEF CtxInv, TokenInv
        <4>2. \A v \in Users : Starting(v) => token[u].ctx # step[v].ctx
          BY <3>2 DEF CtxInv, DevCallInv, Building, Alone
        <4> QED
          BY <1>1, <1>4, <3>2, <4>1, <4>2 DEF Building
      <3> QED
        BY <2>2, <3>1, <3>2
    <2> QED
      BY <2>1, <2>2 DEF ObjectInv
  <1>10. DefaultInv'
    BY <1>1, <1>4 DEF CtxInv, DefaultInv, Building
  <1> QED
    BY <1>3, <1>6, <1>7, <1>8, <1>9, <1>10 DEF CtxInv, DevCallInv

(* libusb_init() begins: with a share of the default context, or by making *)
(* a new one that nothing refers to yet.                                   *)
LEMMA InitShares ==
    ASSUME DevInv, NEW u \in Users, step[u].at = "out", token[u] = NoToken, defLock = None,
           default # None,
           defRefs' = defRefs + 1,
           token' = [token EXCEPT ![u] = [ctx |-> default, named |-> FALSE]],
           UNCHANGED <<contexts, ready, default, defLock, initCount, made, step, objVars>>
    PROVE  CtxInv' /\ ContextCountsExact'
  <1> DEFINE tok == [ctx |-> default, named |-> FALSE]
  <1>1. /\ contexts' = contexts /\ ready' = ready /\ default' = default /\ made' = made
        /\ defLock' = defLock /\ step' = step /\ initCount' = initCount
        /\ home' = home /\ handles' = handles /\ callbacks' = callbacks
    BY DEF objVars
  <1>2. tok.ctx = default /\ tok.named = FALSE /\ tok # NoToken
    BY DEF NoToken
  <1>3. token'[u] = tok /\ \A v \in Users : v # u => token'[v] = token[v]
    BY DEF DevInv, Typed, DevTypeOK
  <1> HIDE DEF tok
  <1>4. /\ \A v \in Users : ~Starting(v) /\ ~In(v, "teardown_default")
        /\ ~Building(u)
    BY DeviceConstants DEF DevInv, CtxInv, DevCallInv, Building, Tearing, Starting, In
  <1>5. default \in ready
    BY <1>4 DEF DevInv, CtxInv, DefaultInv
  <1>6. Holds(u)' /\ ~Holds(u) /\ \A v \in Users : v # u => (Holds(v)' <=> Holds(v))
    BY <1>2, <1>3 DEF Holds
  <1>7. \A v \in Users : /\ In(v, "teardown") => step[v].ctx # default
                         /\ Building(v) => In(v, "teardown") /\ Alone(v)
    BY <1>4 DEF DevInv, CtxInv, DevCallInv, Building, Tearing, In
  <1>8. TokenInv'
    <2>1. \A v \in Users : v # u => /\ Holds(v) => token[v].ctx \in ready
                                    /\ Holds(v) /\ ~token[v].named => token[v].ctx = default
      BY DEF DevInv, CtxInv, TokenInv
    <2>2. \A v, w \in Users : Holds(v)' /\ Holds(w)' /\ v # w /\ token'[v].ctx = token'[w].ctx
             => token'[v].ctx = default
      BY <1>2, <1>3, <1>6 DEF DevInv, CtxInv, TokenInv
    <2> QED
      BY <1>1, <1>2, <1>3, <1>5, <1>6, <2>1, <2>2 DEF TokenInv
  <1>9. \A v \in Users : /\ Building(v)' <=> Building(v)
                         /\ Starting(v)' <=> Starting(v)
    BY <1>1 DEF Building, Starting, Tearing
  <1>10. \A v \in Users : Building(v) => v # u /\ Alone(v)'
    BY <1>1, <1>2, <1>3, <1>4, <1>6, <1>7, <1>9 DEF Alone
  <1>11. DevCallInv'
    <2> SUFFICES ASSUME NEW v \in Users
                 PROVE  /\ In(v, "exit") => Holds(v)' /\ step[v].ctx = token'[v].ctx
                                              /\ \A h \in handles : h.user # v
                        /\ In(v, "teardown") => step[v].ctx \in ready /\ step[v].ctx # default
                        /\ In(v, "open") => Holds(v)' /\ step[v].dev \in 1..made.devices
                                              /\ home[step[v].dev] = token'[v].ctx
      BY <1>1, <1>4, <1>9, <1>10, DeviceConstants DEF DevCallInv, In, Starting
    <2> QED
      BY <1>3, <1>6 DEF DevInv, CtxInv, DevCallInv, In
  <1>12. ObjectInv' /\ DefaultInv'
    BY <1>1, <1>3, <1>5, <1>6, <1>9, SMTT(30) DEF DevInv, CtxInv, ObjectInv, DefaultInv, Typed, DevTypeOK
  <1>13. ContextCountsExact'
    <2>1. u \notin DefaultUsers /\ DefaultUsers' = DefaultUsers \cup {u}
      BY <1>1, <1>2, <1>3, <1>4, <1>6 DEF DefaultUsers, Holds, Starting
    <2>2. Cardinality(DefaultUsers') = Cardinality(DefaultUsers) + 1
      BY <2>1, Sizes, AddOne DEF DevInv
    <2> QED
      BY <1>1, <2>2 DEF DevInv, ContextCountsExact
  <1> QED
    BY <1>8, <1>11, <1>12, <1>13 DEF CtxInv

LEMMA InitMakes ==
    ASSUME DevInv, NEW u \in Users, NEW at \in {"init_named", "init_default"},
           step[u].at = "out", token[u] = NoToken, defLock = None,
           at = "init_default" => default = None,
           NEW c, c = made.contexts + 1,
           made'.devices = made.devices,
           contexts' = contexts \cup {c},
           default = None => default' = c /\ defRefs' = defRefs + 1,
           default # None => default' = default /\ defRefs' = defRefs,
           defLock' = u,
           Enter(u, at, c, None),
           UNCHANGED <<token, ready, initCount, objVars>>
    PROVE  CtxInv' /\ ContextCountsExact'
  <1>1. /\ ready' = ready /\ token' = token /\ initCount' = initCount
        /\ home' = home /\ handles' = handles /\ callbacks' = callbacks
        /\ made'.devices = made.devices
    BY DEF objVars, DevInv, Typed, DevTypeOK
  <1>2. /\ step'[u].at = at /\ step'[u].ctx = c
        /\ \A v \in Users : v # u => step'[v] = step[v]
    BY EnterStep DEF DevInv, Typed
  <1>3. /\ c \in Nat /\ c # None /\ c \notin contexts /\ ready \subseteq contexts
        /\ c # default /\ None \notin contexts
    <2>1. /\ made.contexts \in Nat /\ contexts \subseteq 1..made.contexts
          /\ ready \subseteq contexts /\ default \in contexts \cup {None}
      BY DEF DevInv, Typed, DevTypeOK
    <2>2. /\ c \in Nat /\ c # 0 /\ c \notin contexts /\ 0 \notin contexts
      BY <2>1, Fresh
    <2> QED
      BY <2>1, <2>2 DEF None
  <1>4. /\ \A v \in Users : ~Starting(v) /\ ~In(v, "teardown_default")
        /\ ~Building(u) /\ ~Holds(u)
    BY DeviceConstants DEF DevInv, CtxInv, DevCallInv, Building, Tearing, Starting, In, Holds
  <1>5. /\ Starting(u)' /\ Building(u)' /\ ~Tearing(u)'
        /\ \A v \in Users : Holds(v)' <=> Holds(v)
        /\ \A v \in Users : v # u => (Building(v)' <=> Building(v)) /\ ~Starting(v)'
    BY <1>1, <1>2, <1>4 DEF Building, Starting, Tearing, Holds
  <1>6. \A v \in Users : Holds(v) => token[v].ctx \in ready /\ token[v].ctx # c
    BY <1>3 DEF DevInv, CtxInv, TokenInv
  <1>7. \A v \in Users : Building(v) => Alone(v) /\ step[v].ctx \in contexts /\ step[v].ctx # c
    BY <1>3 DEF DevInv, CtxInv, DevCallInv, Alone
  <1>8. default # None => default' = default
    OBVIOUS
  <1>9. default = None => \A v \in Users : Holds(v) => token[v].named
    BY <1>3 DEF DevInv, CtxInv, TokenInv
  <1>10. TokenInv'
    <2>1. default = None => \A v, w \in Users : Holds(v) /\ Holds(w) /\ v # w => token[v].ctx # token[w].ctx
      BY <1>3 DEF DevInv, CtxInv, TokenInv
    <2> QED
      BY <1>1, <1>5, <1>8, <1>9, <2>1 DEF TokenInv, DevInv, CtxInv
  <1>11. \A v \in Users : Building(v)' => Alone(v)'
    <2> SUFFICES ASSUME NEW v \in Users, Building(v)'
                 PROVE  /\ ~Holds(v) /\ step'[v].ctx \in contexts'
                        /\ \A w \in Users : Holds(w) => token[w].ctx # step'[v].ctx
                        /\ \A w \in Users : Building(w)' /\ w # v => step'[w].ctx # step'[v].ctx
      BY <1>1, <1>5 DEF Alone
    <2>1. CASE v = u
      BY <1>2, <1>4, <1>5, <1>6, <1>7, <2>1
    <2>2. CASE v # u
      <3>1. step'[v] = step[v] /\ Building(v)
        BY <1>2, <1>5, <2>2
      <3> QED
        BY <1>2, <1>5, <1>7, <3>1 DEF Alone
    <2> QED
      BY <2>1, <2>2
  <1>12. DevCallInv'
    <2> SUFFICES ASSUME NEW v \in Users
                 PROVE  /\ Starting(v)' => defLock' = v
                        /\ In(v, "init_default")' => step'[v].ctx = default'
                        /\ In(v, "exit")' => Holds(v) /\ step'[v].ctx = token[v].ctx
                                              /\ \A h \in handles : h.user # v
                        /\ In(v, "teardown")' => step'[v].ctx \in ready /\ step'[v].ctx # default'
                        /\ ~In(v, "teardown_default")'
                        /\ In(v, "open")' => Holds(v) /\ step'[v].dev \in 1..made.devices
                                              /\ home[step'[v].dev] = token[v].ctx
                        /\ defLock' = v => Starting(v)'
      BY <1>1, <1>5, <1>11 DEF DevCallInv, In
    <2>1. CASE v = u
      BY <1>2, <1>5, <2>1 DEF In
    <2>2. CASE v # u
      <3>1. step'[v] = step[v] /\ ~Starting(v)' /\ defLock' # v
        BY <1>2, <1>5, <2>2
      <3>2. In(v, "teardown") => step[v].ctx # c
        BY <1>7 DEF Building, Tearing, In
      <3> QED
        BY <1>2, <1>4, <1>8, <2>2, <3>1, <3>2 DEF DevInv, CtxInv, DevCallInv, In, Starting
    <2> QED
      BY <2>1, <2>2
  <1>13. ObjectInv'
    <2>1. \A h \in handles : Holds(h.user)' /\ token[h.user].ctx = h.ctx
      BY <1>1 DEF DevInv, CtxInv, ObjectInv, Holds
    <2>2. \A k \in callbacks : k.ctx \in ready /\ k.ctx # c
      BY <1>3 DEF DevInv, CtxInv, ObjectInv
    <2> QED
      BY <1>1, <1>2, <1>5, <2>1, <2>2 DEF ObjectInv
  <1>14. DefaultInv'
    BY <1>1, <1>2, <1>4, <1>5, <1>8 DEF DevInv, CtxInv, DefaultInv
  <1>15. ContextCountsExact'
    <2>1. CASE default = None
      <3>1. DefaultUsers' = {u}
        BY <1>1, <1>2, <1>5, <1>6, <2>1 DEF DefaultUsers, Holds, Starting
      <3>2. Cardinality(DefaultUsers') = 1
        BY <3>1, FS_Singleton
      <3>3. defRefs = 0 /\ initCount = Cardinality(ready)
        BY <2>1 DEF DevInv, ContextCountsExact
      <3>4. defRefs' = 1
        BY <2>1, <3>3
      <3>5. default' # None
        BY <1>3, <2>1
      <3> QED
        BY <1>1, <3>2, <3>3, <3>4, <3>5 DEF ContextCountsExact
    <2>2. CASE default # None
      <3>1. DefaultUsers' = DefaultUsers
        BY <1>1, <1>2, <1>3, <1>4, <1>5, <1>8, <2>2 DEF DefaultUsers, Starting
      <3> QED
        BY <1>1, <1>8, <2>2, <3>1 DEF DevInv, ContextCountsExact
    <2> QED
      BY <2>1, <2>2
  <1> QED
    BY <1>10, <1>12, <1>13, <1>14, <1>15 DEF CtxInv

(* The backend of a new context becomes ready. *)
LEMMA BackendReady ==
    ASSUME DevInv, NEW u \in Users, Starting(u), NEW c, c = step[u].ctx, c \notin ready,
           ready' = ready \cup {c},
           initCount' = initCount + 1,
           UNCHANGED <<contexts, default, defRefs, defLock, token, step, made, objVars>>
    PROVE  CtxInv' /\ ContextCountsExact'
  <1>1. /\ contexts' = contexts /\ default' = default /\ defRefs' = defRefs /\ defLock' = defLock
        /\ token' = token /\ step' = step /\ made' = made
        /\ home' = home /\ handles' = handles /\ callbacks' = callbacks
    BY DEF objVars
  <1>2. \A v \in Users : /\ Starting(v)' <=> Starting(v)
                         /\ Building(v)' <=> Building(v)
                         /\ Holds(v)' <=> Holds(v)
                         /\ Alone(v)' <=> Alone(v)
    BY <1>1 DEF Starting, Building, Tearing, Holds, Alone
  <1>3. TokenInv'
    BY <1>1, <1>2 DEF DevInv, CtxInv, TokenInv
  <1>4. DevCallInv'
    BY <1>1, <1>2 DEF DevInv, CtxInv, DevCallInv, In
  <1>5. ObjectInv' /\ DefaultInv'
    BY <1>1, <1>2 DEF DevInv, CtxInv, ObjectInv, DefaultInv, Holds
  <1>6. ContextCountsExact'
    <2>1. DefaultUsers' = DefaultUsers
      BY <1>1 DEF DefaultUsers
    <2>2. Cardinality(ready') = Cardinality(ready) + 1
      BY Sizes, AddOne DEF DevInv
    <2> QED
      BY <1>1, <2>1, <2>2 DEF DevInv, ContextCountsExact
  <1> QED
    BY <1>3, <1>4, <1>5, <1>6 DEF CtxInv

(* An initialisation that fails takes its context away again. *)
LEMMA UndoStep ==
    ASSUME DevInv, NEW u \in Users, Starting(u), NEW c, c = step[u].ctx,
           Undo(u, c),
           ready' = ready \ {c},
           initCount' = IF c \in ready THEN initCount - 1 ELSE initCount,
           UNCHANGED <<made, objVars>>
    PROVE  CtxInv' /\ ContextCountsExact'
  <1>1. /\ token' = token /\ contexts' = contexts \ {c} /\ defLock' = None
        /\ home' = home /\ handles' = handles /\ callbacks' = callbacks /\ made' = made
    BY DEF objVars, Undo
  <1>2. /\ step'[u].at = "out" /\ \A v \in Users : v # u => step'[v] = step[v]
    BY LeaveStep DEF DevInv, Typed, Undo
  <1>3. /\ default = c => default' = None /\ defRefs' = defRefs - 1
        /\ default # c => default' = default /\ defRefs' = defRefs
    BY DEF Undo
  <1>4. /\ defLock = u /\ Building(u) /\ Alone(u) /\ c \in contexts /\ ~Holds(u)
        /\ \A v \in Users : Holds(v) => token[v].ctx # c
    BY DEF DevInv, CtxInv, DevCallInv, Building, Alone
  <1>5. /\ \A v \in Users : v # u => ~Starting(v) /\ ~In(v, "teardown_default")
        /\ \A v \in Users : ~Starting(v)' /\ ~In(v, "teardown_default")'
        /\ ~Building(u)' /\ u # None
    BY <1>2, <1>4, DeviceConstants
    DEF DevInv, CtxInv, DevCallInv, Building, Tearing, Starting, In
  <1>6. \A v \in Users : /\ Holds(v)' <=> Holds(v)
                         /\ v # u => (Building(v)' <=> Building(v))
    BY <1>1, <1>2 DEF Holds, Building, Starting, Tearing
  <1>7. /\ \A v \in Users : v # u /\ Building(v) => Alone(v) /\ step[v].ctx # c
        /\ c \notin ready \/ \A k \in callbacks : k.ctx # c
        /\ \A k \in callbacks : k.ctx # c
    BY <1>4 DEF DevInv, CtxInv, DevCallInv, ObjectInv, Alone
  <1>8. TokenInv'
    BY <1>1, <1>3, <1>4, <1>6 DEF DevInv, CtxInv, TokenInv
  <1>9. \A v \in Users : Building(v)' => Alone(v)'
    <2> SUFFICES ASSUME NEW v \in Users, Building(v)'
                 PROVE  Alone(v)'
      OBVIOUS
    <2>1. v # u /\ Building(v) /\ Alone(v) /\ step'[v] = step[v] /\ step[v].ctx # c
      BY <1>2, <1>5, <1>6, <1>7
    <2>2. \A w \in Users : Building(w)' => w # u /\ Building(w) /\ step'[w] = step[w]
      BY <1>2, <1>5, <1>6
    <2> QED
      BY <1>1, <1>6, <2>1, <2>2 DEF Alone
  <1>10. DevCallInv'
    <2> SUFFICES ASSUME NEW v \in Users
                 PROVE  /\ In(v, "exit")' => Holds(v) /\ step'[v].ctx = token[v].ctx
                                              /\ \A h \in handles : h.user # v
                        /\ In(v, "teardown")' => step'[v].ctx \in ready' /\ step'[v].ctx # default'
                        /\ In(v, "open")' => Holds(v) /\ step'[v].dev \in 1..made.devices
                                              /\ home[step'[v].dev] = token[v].ctx
      <3>1. \A v \in Users : In(v, "init_default")' => Starting(v)'
        BY DEF In, Starting
      <3> QED
        BY <1>1, <1>5, <1>6, <1>9, <3>1, DeviceConstants DEF DevCallInv
    <2>1. CASE v = u
      BY <1>2, <2>1 DEF In
    <2>2. CASE v # u
      <3>1. step'[v] = step[v]
        BY <1>2, <2>2
      <3>2. In(v, "teardown") =>
              step[v].ctx \in ready /\ step[v].ctx # default /\ step[v].ctx # c
        BY <1>7, <2>2 DEF DevInv, CtxInv, DevCallInv, Building, Tearing, In
      <3>3. ready \subseteq contexts /\ None \notin contexts
        BY Fresh DEF DevInv, Typed, DevTypeOK, None
      <3> QED
        BY <1>3, <2>2, <3>1, <3>2, <3>3 DEF DevInv, CtxInv, DevCallInv, In
    <2> QED
      BY <2>1, <2>2
  <1>11. ObjectInv'
    <2>1. \A h \in handles : Holds(h.user)' /\ token[h.user].ctx = h.ctx
      BY <1>1 DEF DevInv, CtxInv, ObjectInv, Holds
    <2>2. \A k \in callbacks : k.ctx \in ready /\ k.ctx # c
      BY <1>7 DEF DevInv, CtxInv, ObjectInv
    <2> QED
      BY <1>1, <1>5, <2>1, <2>2 DEF ObjectInv
  <1>12. DefaultInv'
    <2>1. default # None /\ default # c => default \in ready
      BY <1>5 DEF DevInv, CtxInv, DefaultInv
    <2> QED
      BY <1>3, <2>1 DEF DefaultInv
  <1>13. ContextCountsExact'
    <2>1. initCount' = Cardinality(ready')
      <3>1. CASE c \in ready
        BY <3>1, Sizes, DropOne DEF DevInv, ContextCountsExact
      <3>2. CASE c \notin ready
        <4>1. ready' = ready
          BY <3>2
        <4> QED
          BY <3>2, <4>1 DEF DevInv, ContextCountsExact
      <3> QED
        BY <3>1, <3>2
    <2>2. CASE default = c
      <3>1. DefaultUsers = {u}
        BY <1>4, <1>5, <2>2 DEF DefaultUsers, Holds, Starting
      <3>2. defRefs = 1
        <4>1. default # None
          BY <1>4, <2>2, Fresh DEF DevInv, Typed, DevTypeOK, None
        <4> QED
          BY <3>1, <4>1, FS_Singleton DEF DevInv, ContextCountsExact
      <3> QED
        BY <1>3, <2>1, <2>2, <3>2 DEF ContextCountsExact
    <2>3. CASE default # c
      <3>1. DefaultUsers' = DefaultUsers
        BY <1>1, <1>2, <1>3, <1>5, <2>3 DEF DefaultUsers, Starting
      <3> QED
        BY <1>3, <2>1, <2>3, <3>1 DEF DevInv, ContextCountsExact
    <2> QED
      BY <2>2, <2>3
  <1> QED
    BY <1>8, <1>10, <1>11, <1>12, <1>13 DEF CtxInv

(* An initialisation that succeeds gives its context to the thread. *)
LEMMA InitDone ==
    ASSUME DevInv, NEW u \in Users, Starting(u), NEW c, c = step[u].ctx, c \in ready,
           NEW tok, tok.ctx = c, tok # NoToken, ~tok.named => In(u, "init_default"),
           token'[u] = tok, \A v \in Users : v # u => token'[v] = token[v],
           defLock' = None, Leave(u),
           UNCHANGED <<contexts, ready, default, defRefs, initCount, made, objVars>>
    PROVE  CtxInv' /\ ContextCountsExact'
  <1>1. /\ contexts' = contexts /\ ready' = ready /\ default' = default /\ defRefs' = defRefs
        /\ initCount' = initCount /\ made' = made
        /\ home' = home /\ handles' = handles /\ callbacks' = callbacks
    BY DEF objVars
  <1>2. /\ step'[u].at = "out" /\ \A v \in Users : v # u => step'[v] = step[v]
    BY LeaveStep DEF DevInv, Typed
  <1>3. /\ defLock = u /\ Building(u) /\ Alone(u) /\ ~Holds(u) /\ Holds(u)'
        /\ \A v \in Users : Holds(v) => token[v].ctx # c
        /\ In(u, "init_default") => c = default
    BY DEF DevInv, CtxInv, DevCallInv, Building, Alone, Holds
  <1>4. /\ \A v \in Users : v # u => ~Starting(v) /\ ~In(v, "teardown_default")
        /\ \A v \in Users : ~Starting(v)' /\ ~In(v, "teardown_default")'
        /\ ~Building(u)'
    BY <1>2, <1>3, DeviceConstants
    DEF DevInv, CtxInv, DevCallInv, Building, Tearing, Starting, In
  <1>5. \A v \in Users : v # u => /\ Holds(v)' <=> Holds(v)
                                  /\ Building(v)' <=> Building(v)
    BY <1>2 DEF Holds, Building, Starting, Tearing
  <1>6. \A v \in Users : v # u /\ Building(v) => Alone(v) /\ step[v].ctx # c
    BY <1>3 DEF DevInv, CtxInv, DevCallInv, Alone
  <1>7. TokenInv'
    <2>1. \A v \in Users : v # u => /\ Holds(v) => token[v].ctx \in ready
                                    /\ Holds(v) /\ ~token[v].named => token[v].ctx = default
      BY DEF DevInv, CtxInv, TokenInv
    <2>2. \A v, w \in Users : Holds(v)' /\ Holds(w)' /\ v # w /\ token'[v].ctx = token'[w].ctx
             => token'[v].ctx = default
      BY <1>3, <1>5 DEF DevInv, CtxInv, TokenInv
    <2> QED
      BY <1>1, <1>3, <1>5, <2>1, <2>2 DEF TokenInv
  <1>8. \A v \in Users : Building(v)' => Alone(v)'
    <2> SUFFICES ASSUME NEW v \in Users, Building(v)'
                 PROVE  Alone(v)'
      OBVIOUS
    <2>1. v # u /\ Building(v) /\ Alone(v) /\ step'[v] = step[v] /\ step[v].ctx # c
      BY <1>2, <1>4, <1>5, <1>6
    <2>2. \A w \in Users : Building(w)' => w # u /\ Building(w) /\ step'[w] = step[w]
      BY <1>2, <1>4, <1>5
    <2>3. \A w \in Users : Holds(w)' => token'[w].ctx # step[v].ctx
      BY <1>5, <2>1 DEF Alone
    <2> QED
      BY <1>1, <1>5, <2>1, <2>2, <2>3 DEF Alone
  <1>9. DevCallInv'
    <2> SUFFICES ASSUME NEW v \in Users
                 PROVE  /\ In(v, "exit")' => Holds(v)' /\ step'[v].ctx = token'[v].ctx
                                              /\ \A h \in handles : h.user # v
                        /\ In(v, "teardown")' => step'[v].ctx \in ready /\ step'[v].ctx # default
                        /\ In(v, "open")' => Holds(v)' /\ step'[v].dev \in 1..made.devices
                                              /\ home[step'[v].dev] = token'[v].ctx
      <3>1. \A v_1 \in Users : In(v_1, "init_default")' => Starting(v_1)'
        BY DEF In, Starting
      <3> QED
        BY <1>1, <1>4, <1>8, <3>1, DeviceConstants DEF DevCallInv
    <2>1. CASE v = u
      BY <1>2, <2>1 DEF In
    <2>2. CASE v # u
      <3>1. step'[v] = step[v] /\ token'[v] = token[v]
        BY <1>2, <2>2
      <3> QED
        BY <1>5, <2>2, <3>1 DEF DevInv, CtxInv, DevCallInv, In
    <2> QED
      BY <2>1, <2>2
  <1>10. ObjectInv'
    <2>1. \A h \in handles : h.user \in Users /\ h.user # u
      BY <1>3 DEF DevInv, Typed, DevTypeOK, CtxInv, ObjectInv
    <2>2. \A h \in handles : Holds(h.user)' /\ token'[h.user].ctx = h.ctx
      BY <1>5, <2>1 DEF DevInv, CtxInv, ObjectInv
    <2> QED
      BY <1>1, <1>4, <2>2 DEF DevInv, CtxInv, ObjectInv
  <1>11. DefaultInv'
    BY <1>1, <1>4 DEF DevInv, CtxInv, DefaultInv
  <1>12. ContextCountsExact'
    <2>1. DefaultUsers' = DefaultUsers
      <3>1. \A v \in Users : v # u => (v \in DefaultUsers' <=> v \in DefaultUsers)
        BY <1>1, <1>2, <1>5 DEF DefaultUsers, Holds
      <3>2. u \in DefaultUsers' <=> c = default
        BY <1>1, <1>2, <1>3 DEF DefaultUsers, Holds
      <3>3. u \in DefaultUsers <=> c = default
        BY <1>3 DEF DefaultUsers, Holds, Starting
      <3> QED
        BY <3>1, <3>2, <3>3 DEF DefaultUsers
    <2> QED
      BY <1>1, <2>1 DEF DevInv, ContextCountsExact
  <1> QED
    BY <1>7, <1>9, <1>10, <1>11, <1>12 DEF CtxInv

(* libusb_exit() reads the context it is to leave. *)
LEMMA ExitBeginStep ==
    ASSUME DevInv, NEW u \in Users, ExitBegin(u)
    PROVE  CtxInv' /\ ContextCountsExact'
  <1> DEFINE c == IF token[u].named THEN token[u].ctx ELSE default
  <1>1. /\ step[u].at = "out" /\ Holds(u) /\ \A h \in handles : h.user # u
        /\ Enter(u, "exit", c, None)
        /\ contexts' = contexts /\ ready' = ready /\ default' = default /\ defRefs' = defRefs
        /\ defLock' = defLock /\ initCount' = initCount /\ token' = token /\ made' = made
        /\ home' = home /\ handles' = handles /\ callbacks' = callbacks
    BY DEF ExitBegin, In, Holds, ctxVars, objVars
  <1>2. c = token[u].ctx
    BY <1>1 DEF DevInv, CtxInv, TokenInv
  <1> HIDE DEF c
  <1>3. /\ step'[u].at = "exit" /\ step'[u].ctx = c
        /\ \A v \in Users : v # u => step'[v] = step[v]
    BY <1>1, EnterStep DEF DevInv, Typed
  <1>4. \A v \in Users : /\ Holds(v)' <=> Holds(v)
                         /\ Starting(v)' <=> Starting(v)
                         /\ Building(v)' <=> Building(v)
                         /\ Building(v) => step'[v] = step[v]
    BY <1>1, <1>3 DEF Holds, Starting, Building, Tearing
  <1>5. \A v \in Users : Building(v) /\ Alone(v) => Alone(v)'
    BY <1>1, <1>4 DEF Alone
  <1>6. TokenInv'
    BY <1>1 DEF DevInv, CtxInv, TokenInv, Holds
  <1>7. DevCallInv'
    <2> SUFFICES ASSUME NEW v \in Users
                 PROVE  /\ Building(v)' => Alone(v)'
                        /\ Starting(v)' => defLock = v
                        /\ In(v, "init_default")' => step'[v].ctx = default
                        /\ In(v, "exit")' => Holds(v) /\ step'[v].ctx = token[v].ctx
                                              /\ \A h \in handles : h.user # v
                        /\ In(v, "teardown")' => step'[v].ctx \in ready /\ step'[v].ctx # default
                        /\ In(v, "teardown_default")' =>
                             defLock = v /\ step'[v].ctx = default /\ step'[v].ctx \in ready
                        /\ In(v, "open")' => Holds(v) /\ step'[v].dev \in 1..made.devices
                                              /\ home[step'[v].dev] = token[v].ctx
                        /\ defLock = v => Starting(v)' \/ In(v, "teardown_default")'
      BY <1>1, <1>4 DEF DevCallInv
    <2>1. CASE v = u
      BY <1>1, <1>2, <1>3, <1>4, <2>1 DEF In, Starting, DevInv, CtxInv, DevCallInv, Building, Tearing
    <2>2. CASE v # u
      <3>1. step'[v] = step[v]
        BY <1>3, <2>2
      <3> QED
        BY <1>4, <1>5, <3>1 DEF DevInv, CtxInv, DevCallInv, In
    <2> QED
      BY <2>1, <2>2
  <1>8. ObjectInv' /\ DefaultInv'
    BY <1>1, <1>4 DEF DevInv, CtxInv, ObjectInv, DefaultInv, Holds, Building
  <1>9. ContextCountsExact'
    <2>1. DefaultUsers' = DefaultUsers
      BY <1>1, <1>3 DEF DefaultUsers
    <2> QED
      BY <1>1, <2>1 DEF DevInv, ContextCountsExact
  <1> QED
    BY <1>6, <1>7, <1>8, <1>9 DEF CtxInv

(* Whichever way libusb_exit() goes on, the thread has given its context   *)
(* back, and if it goes on to tear it down, nobody else is left in it.     *)
LEMMA GiveBack ==
    ASSUME DevInv, NEW u \in Users, In(u, "exit"), defLock = None,
           token' = [token EXCEPT ![u] = NoToken],
           \A v \in Users : v # u => step'[v] = step[v],
           step'[u].at \in {"out", "teardown", "teardown_default"},
           Tearing(u)' => /\ step'[u].ctx = step[u].ctx
                          /\ \A v \in Users : v # u /\ Holds(v) => token[v].ctx # step[u].ctx,
           In(u, "teardown")' => step[u].ctx # default,
           In(u, "teardown_default")' => step[u].ctx = default,
           defLock' = IF In(u, "teardown_default")' THEN u ELSE None,
           UNCHANGED <<contexts, ready, default, initCount, made, objVars>>
    PROVE  CtxInv'
  <1> DEFINE c == step[u].ctx
  <1>1. /\ token'[u] = NoToken /\ \A v \in Users : v # u => token'[v] = token[v]
        /\ contexts' = contexts /\ ready' = ready /\ default' = default /\ made' = made
        /\ home' = home /\ handles' = handles /\ callbacks' = callbacks
    BY DEF objVars, DevInv, Typed, DevTypeOK
  <1>2. /\ Holds(u) /\ token[u].ctx = c /\ c \in ready /\ \A h \in handles : h.user # u
        /\ c \in contexts
    BY DEF DevInv, CtxInv, DevCallInv, TokenInv, Typed, DevTypeOK
  <1>3. \A v \in Users : ~Starting(v) /\ ~In(v, "teardown_default") /\ v # None
    BY DeviceConstants DEF DevInv, CtxInv, DevCallInv
  <1>4. ~Building(u) /\ ~Starting(u)' /\ (Building(u)' <=> Tearing(u)')
    BY DEF In, Building, Tearing, Starting
  <1>5. ~Holds(u)' /\ \A v \in Users : v # u => /\ Holds(v)' <=> Holds(v)
                                                /\ Building(v)' <=> Building(v)
                                                /\ ~Starting(v)' /\ ~In(v, "teardown_default")'
    BY <1>1, <1>3 DEF Holds, Building, Tearing, Starting, In
  <1>6. \A v \in Users : Building(v) => Alone(v) /\ step[v].ctx # c /\ v # u
    BY <1>2, <1>4 DEF DevInv, CtxInv, DevCallInv, Alone
  <1>7. TokenInv'
    BY <1>1, <1>5 DEF DevInv, CtxInv, TokenInv
  <1>8. \A v \in Users : Building(v)' => Alone(v)'
    <2> SUFFICES ASSUME NEW v \in Users, Building(v)'
                 PROVE  /\ ~Holds(v)' /\ step'[v].ctx \in contexts
                        /\ \A w \in Users : Holds(w)' => token'[w].ctx # step'[v].ctx
                        /\ \A w \in Users : Building(w)' /\ w # v => step'[w].ctx # step'[v].ctx
      BY <1>1 DEF Alone
    <2>1. CASE v = u
      <3>1. step'[v].ctx = c
        BY <1>4, <2>1
      <3>2. \A w \in Users : Building(w)' /\ w # u => step'[w].ctx # c
        BY <1>5, <1>6
      <3> QED
        BY <1>1, <1>2, <1>4, <1>5, <2>1, <3>1, <3>2
    <2>2. CASE v # u
      <3>1. step'[v] = step[v] /\ Building(v) /\ Alone(v) /\ step[v].ctx # c
        BY <1>5, <1>6, <2>2
      <3>2. \A w \in Users : Building(w)' /\ w # v => step'[w].ctx # step[v].ctx
        BY <1>4, <1>5, <3>1 DEF Alone
      <3> QED
        BY <1>1, <1>5, <2>2, <3>1, <3>2 DEF Alone
    <2> QED
      BY <2>1, <2>2
  <1>9. DevCallInv'
    <2> SUFFICES ASSUME NEW v \in Users
                 PROVE  /\ ~Starting(v)' /\ ~In(v, "init_default")'
                        /\ In(v, "exit")' => Holds(v)' /\ step'[v].ctx = token'[v].ctx
                                              /\ \A h \in handles : h.user # v
                        /\ In(v, "teardown")' => step'[v].ctx \in ready /\ step'[v].ctx # default
                        /\ In(v, "teardown_default")' =>
                             defLock' = v /\ step'[v].ctx = default /\ step'[v].ctx \in ready
                        /\ In(v, "open")' => Holds(v)' /\ step'[v].dev \in 1..made.devices
                                              /\ home[step'[v].dev] = token'[v].ctx
                        /\ defLock' = v => In(v, "teardown_default")'
      BY <1>1, <1>8 DEF DevCallInv
    <2>1. CASE v = u
      BY <1>2, <1>3, <1>4, <2>1 DEF In, Starting, Tearing
    <2>2. CASE v # u
      <3>1. step'[v] = step[v] /\ token'[v] = token[v] /\ defLock' # v
        BY <1>1, <1>3, <2>2
      <3> QED
        BY <1>5, <2>2, <3>1 DEF DevInv, CtxInv, DevCallInv, In, Starting
    <2> QED
      BY <2>1, <2>2
  <1>10. ObjectInv'
    <2>1. \A h \in handles : h.user \in Users /\ h.user # u
      BY <1>2 DEF DevInv, Typed, DevTypeOK
    <2>2. \A h \in handles : Holds(h.user)' /\ token'[h.user].ctx = h.ctx
      BY <1>1, <1>5, <2>1 DEF DevInv, CtxInv, ObjectInv
    <2> QED
      BY <1>1, <1>4, <1>5, <2>2 DEF DevInv, CtxInv, ObjectInv
  <1>11. DefaultInv'
    BY <1>1, <1>3 DEF DevInv, CtxInv, DefaultInv
  <1> QED
    BY <1>7, <1>9, <1>10, <1>11 DEF CtxInv

LEMMA ExitLockStep ==
    ASSUME DevInv, NEW u \in Users, ExitLock(u)
    PROVE  CtxInv' /\ ContextCountsExact'
  <1> DEFINE c == step[u].ctx
  <1>1. /\ In(u, "exit") /\ defLock = None
        /\ token' = [token EXCEPT ![u] = NoToken]
        /\ UNCHANGED <<contexts, ready, default, initCount, made, objVars>>
        /\ default' = default /\ initCount' = initCount /\ ready' = ready
    BY DEF ExitLock
  <1>2. /\ Holds(u) /\ token[u].ctx = c /\ c \in ready /\ c \in contexts
    BY <1>1 DEF DevInv, CtxInv, DevCallInv, TokenInv, Typed, DevTypeOK
  <1>3. c # None
    BY <1>2, Fresh DEF DevInv, Typed, DevTypeOK, None
  <1>4. token'[u] = NoToken /\ \A v \in Users : v # u => token'[v] = token[v]
    BY <1>1 DEF DevInv, Typed, DevTypeOK
  <1>5. \A v \in Users : ~Starting(v)
    BY <1>1, DeviceConstants DEF DevInv, CtxInv, DevCallInv
  <1>6. \A v \in Users : v # u => step'[v] = step[v]
    BY EnterStep, LeaveStep DEF ExitLock, DevInv, Typed
  <1>7. ~Holds(u)' /\ \A v \in Users : v # u => (Holds(v)' <=> Holds(v))
    BY <1>4 DEF Holds
  <1>8. CASE c # default
    <2>1. Enter(u, "teardown", c, None) /\ defRefs' = defRefs /\ defLock' = defLock
      BY <1>8 DEF ExitLock
    <2>2. step'[u].at = "teardown" /\ step'[u].ctx = c
      BY <2>1, EnterStep DEF DevInv, Typed
    <2>3. \A v \in Users : v # u /\ Holds(v) => token[v].ctx # c
      BY <1>2, <1>8 DEF DevInv, CtxInv, TokenInv
    <2>4. CtxInv'
      BY <1>1, <1>6, <1>8, <2>1, <2>2, <2>3, GiveBack DEF In
    <2>5. DefaultUsers' = DefaultUsers
      BY <1>1, <1>2, <1>4, <1>5, <1>6, <1>7, <1>8, <2>2 DEF DefaultUsers, Holds, Starting
    <2> QED
      BY <1>1, <2>1, <2>4, <2>5 DEF DevInv, ContextCountsExact
  <1>9. CASE c = default
    <2>1. /\ defRefs' = defRefs - 1 /\ defRefs = Cardinality(DefaultUsers)
      BY <1>3, <1>9 DEF ExitLock, DevInv, ContextCountsExact
    <2>2. u \in DefaultUsers /\ DefaultUsers' = DefaultUsers \ {u}
      <3>1. ~Starting(u)'
        BY <1>9, EnterStep, LeaveStep DEF ExitLock, DevInv, Typed, Starting
      <3> QED
        BY <1>1, <1>2, <1>4, <1>5, <1>6, <1>7, <1>9, <3>1 DEF DefaultUsers, Holds, Starting
    <2>3. ContextCountsExact'
      <3>1. Cardinality(DefaultUsers') = Cardinality(DefaultUsers) - 1
        BY <2>2, Sizes, DropOne DEF DevInv
      <3> QED
        BY <1>1, <1>3, <1>9, <2>1, <3>1 DEF DevInv, ContextCountsExact
    <2>4. CASE LastUser
      <3>1. Enter(u, "teardown_default", c, None) /\ defLock' = u
        BY <1>9, <2>4 DEF ExitLock
      <3>2. step'[u].at = "teardown_default" /\ step'[u].ctx = c
        BY <3>1, EnterStep DEF DevInv, Typed
      <3>3. DefaultUsers \ {u} = {}
        <4>1. /\ IsFiniteSet(DefaultUsers \ {u})
              /\ Cardinality(DefaultUsers \ {u}) = Cardinality(DefaultUsers) - 1
          BY <2>2, Sizes, DropOne DEF DevInv
        <4> QED
          BY <2>1, <2>4, <4>1, FS_EmptySet DEF LastUser
      <3>4. \A v \in Users : v # u /\ Holds(v) => token[v].ctx # c
        BY <1>9, <3>3 DEF DefaultUsers, Holds
      <3> QED
        BY <1>1, <1>6, <1>9, <2>3, <3>1, <3>2, <3>4, GiveBack DEF In
    <2>5. CASE ~LastUser
      <3>1. Leave(u) /\ defLock' = None
        BY <1>9, <2>5 DEF ExitLock
      <3>2. step'[u].at = "out"
        BY <3>1, LeaveStep DEF DevInv, Typed
      <3> QED
        BY <1>1, <1>6, <2>3, <3>1, <3>2, GiveBack DEF In, Tearing
    <2> QED
      BY <2>4, <2>5
  <1> QED
    BY <1>8, <1>9

(* libusb_exit() frees the context: nobody else refers to it. *)
LEMMA ExitTeardownStep ==
    ASSUME DevInv, NEW u \in Users, ExitTeardown(u)
    PROVE  CtxInv' /\ ContextCountsExact'
  <1> DEFINE c == step[u].ctx
  <1>1. /\ Tearing(u) /\ ready' = ready \ {c} /\ contexts' = contexts \ {c}
        /\ initCount' = initCount - 1 /\ defRefs' = defRefs /\ token' = token /\ made' = made
        /\ home' = home /\ handles' = handles
        /\ callbacks' = {k \in callbacks : k.ctx # c}
    BY DEF ExitTeardown
  <1>2. /\ In(u, "teardown_default") => default' = None /\ defLock' = None
        /\ In(u, "teardown") => default' = default /\ defLock' = defLock
    BY DEF ExitTeardown, In
  <1>3. /\ step'[u].at = "out" /\ \A v \in Users : v # u => step'[v] = step[v]
    BY LeaveStep DEF ExitTeardown, DevInv, Typed
  <1>4. /\ Building(u) /\ Alone(u) /\ ~Holds(u) /\ c \in ready
        /\ \A v \in Users : Holds(v) => token[v].ctx # c
        /\ \A v \in Users : v # u /\ Building(v) => Alone(v) /\ step[v].ctx # c
    BY <1>1 DEF DevInv, CtxInv, DevCallInv, Building, Tearing, In, Alone
  <1>5. /\ In(u, "teardown") => c # default
        /\ In(u, "teardown_default") => c = default /\ defLock = u
        /\ ~Starting(u) /\ ~Building(u)' /\ ~Starting(u)' /\ u # None
        /\ In(u, "teardown") \/ In(u, "teardown_default")
    BY <1>1, <1>3, DeviceConstants DEF DevInv, CtxInv, DevCallInv, Tearing, In, Starting, Building
  <1>6. \A v \in Users : /\ Holds(v)' <=> Holds(v)
                         /\ Starting(v)' <=> Starting(v)
                         /\ v # u => (Building(v)' <=> Building(v))
    BY <1>1, <1>3, <1>5 DEF Holds, Starting, Building, Tearing
  <1>7. \A v \in Users : v # u /\ (Starting(v) \/ In(v, "teardown_default"))
          => In(u, "teardown")
    BY <1>5 DEF DevInv, CtxInv, DevCallInv
  <1>8. TokenInv'
    <2>1. \A v \in Users : Holds(v) => token[v].ctx \in ready'
      BY <1>1, <1>4 DEF DevInv, CtxInv, TokenInv
    <2>2. \A v \in Users : Holds(v) /\ token[v].ctx = default => default' = default
      BY <1>2, <1>4, <1>5
    <2> QED
      BY <1>1, <1>6, <2>1, <2>2 DEF DevInv, CtxInv, TokenInv
  <1>9. \A v \in Users : Building(v)' => Alone(v)'
    <2> SUFFICES ASSUME NEW v \in Users, Building(v)'
                 PROVE  Alone(v)'
      OBVIOUS
    <2>1. v # u /\ Building(v) /\ Alone(v) /\ step'[v] = step[v] /\ step[v].ctx # c
      BY <1>3, <1>4, <1>5, <1>6
    <2>2. \A w \in Users : Building(w)' => w # u /\ Building(w) /\ step'[w] = step[w]
      BY <1>3, <1>5, <1>6
    <2> QED
      BY <1>1, <1>6, <2>1, <2>2 DEF Alone
  <1>10. DevCallInv'
    <2> SUFFICES ASSUME NEW v \in Users
                 PROVE  /\ Starting(v)' => defLock' = v
                        /\ In(v, "init_default")' => step'[v].ctx = default'
                        /\ In(v, "exit")' => Holds(v) /\ step'[v].ctx = token[v].ctx
                                              /\ \A h \in handles : h.user # v
                        /\ In(v, "teardown")' => step'[v].ctx \in ready' /\ step'[v].ctx # default'
                        /\ In(v, "teardown_default")' =>
                             defLock' = v /\ step'[v].ctx = default' /\ step'[v].ctx \in ready'
                        /\ In(v, "open")' => Holds(v) /\ step'[v].dev \in 1..made.devices
                                              /\ home[step'[v].dev] = token[v].ctx
                        /\ defLock' = v => Starting(v)' \/ In(v, "teardown_default")'
      BY <1>1, <1>6, <1>9 DEF DevCallInv
    <2>1. CASE v = u
      <3>1. defLock' # u
        BY <1>2, <1>5 DEF DevInv, CtxInv, DevCallInv, In, Starting
      <3> QED
        BY <1>3, <1>5, <2>1, <3>1 DEF In
    <2>2. CASE v # u
      <3>1. step'[v] = step[v] /\ (In(v, "teardown") => step[v].ctx # c /\ step[v].ctx # None)
        <4>1. None \notin ready
          BY Fresh DEF DevInv, Typed, DevTypeOK, None
        <4> QED
          BY <1>3, <1>4, <2>2, <4>1 DEF DevInv, CtxInv, DevCallInv, Building, Tearing, In
      <3>2. In(v, "teardown_default") \/ Starting(v) => step[v].ctx # c
        BY <1>4, <2>2 DEF Building, Tearing, In
      <3>3. In(v, "init_default") => Starting(v)
        BY DEF In, Starting
      <3>4. In(u, "teardown_default") => defLock' # v
        BY <1>2, DeviceConstants
      <3> QED
        BY <1>1, <1>2, <1>5, <1>6, <1>7, <2>2, <3>1, <3>2, <3>3, <3>4
        DEF DevInv, CtxInv, DevCallInv, In
    <2> QED
      BY <2>1, <2>2
  <1>11. ObjectInv'
    <2>1. \A h \in handles : Holds(h.user)' /\ token[h.user].ctx = h.ctx
      BY <1>1 DEF DevInv, CtxInv, ObjectInv, Holds
    <2>2. \A v \in Users : Starting(v) => v # u /\ step'[v] = step[v]
      BY <1>3, <1>5
    <2> QED
      BY <1>1, <1>6, <2>1, <2>2 DEF DevInv, CtxInv, ObjectInv
  <1>12. DefaultInv'
    <2>1. CASE In(u, "teardown_default")
      BY <1>2, <2>1 DEF DefaultInv
    <2>2. CASE In(u, "teardown")
      BY <1>1, <1>2, <1>3, <1>5, <1>6, <2>2 DEF DevInv, CtxInv, DefaultInv
    <2> QED
      BY <1>5, <2>1, <2>2
  <1>13. ContextCountsExact'
    <2>1. initCount' = Cardinality(ready')
      BY <1>1, <1>4, Sizes, DropOne DEF DevInv, ContextCountsExact
    <2>2. CASE In(u, "teardown_default")
      <3>1. DefaultUsers = {}
        BY <1>4, <1>5, <1>7, <2>2 DEF DefaultUsers, Holds, Starting, In
      <3>2. default # None
        BY <1>4, <1>5, <2>2, Fresh DEF DevInv, Typed, DevTypeOK, None
      <3> QED
        BY <1>1, <1>2, <2>1, <2>2, <3>1, <3>2, FS_EmptySet DEF DevInv, ContextCountsExact
    <2>3. CASE In(u, "teardown")
      <3>1. DefaultUsers' = DefaultUsers
        <4>1. \A v \in Users : step[v].at \in {"init_named", "init_default"}
                => v # u /\ step'[v] = step[v]
          BY <1>3, <1>5 DEF Starting
        <4>2. \A v \in Users : step'[v].at \in {"init_named", "init_default"}
                => v # u /\ step'[v] = step[v]
          BY <1>3, <1>5 DEF Starting
        <4> QED
          BY <1>1, <1>2, <2>3, <4>1, <4>2 DEF DefaultUsers
      <3> QED
        BY <1>1, <1>2, <2>1, <2>3, <3>1 DEF DevInv, ContextCountsExact
    <2> QED
      BY <1>5, <2>2, <2>3
  <1> QED
    BY <1>8, <1>10, <1>11, <1>12, <1>13, <1>9 DEF CtxInv

(* What libusb_init() does to the contexts, call by call. *)
LEMMA InitStep ==
    ASSUME DevInv, NEW u \in Users, NEW b \in BOOLEAN,
           InitBegin(u, b) \/ InitBackend(u, b) \/ InitIo(u, b)
    PROVE  CtxInv' /\ ContextCountsExact'
  <1>1. CASE InitBegin(u, b)
    <2>1. /\ step[u].at = "out" /\ token[u] = NoToken /\ defLock = None
          /\ UNCHANGED <<ready, initCount, objVars>>
      BY <1>1 DEF InitBegin, In
    <2>2. CASE ~b /\ default # None
      <3>1. /\ defRefs' = defRefs + 1
            /\ token' = [token EXCEPT ![u] = [ctx |-> default, named |-> FALSE]]
            /\ UNCHANGED <<contexts, default, defLock, made, step>>
        BY <1>1, <2>2 DEF InitBegin
      <3> QED
        BY <2>1, <2>2, <3>1, InitShares
    <2>3. CASE b \/ default = None
      <3> DEFINE c == made.contexts + 1
                 at == IF b THEN "init_named" ELSE "init_default"
      <3>1. /\ made' = [made EXCEPT !.contexts = c]
            /\ contexts' = contexts \cup {c}
            /\ default = None => default' = c /\ defRefs' = defRefs + 1
            /\ default # None => default' = default /\ defRefs' = defRefs
            /\ defLock' = u
            /\ Enter(u, at, c, None)
            /\ UNCHANGED token
        BY <1>1, <2>3 DEF InitBegin
      <3>2. made'.devices = made.devices
        BY <3>1 DEF DevInv, Typed, DevTypeOK
      <3>3. at \in {"init_named", "init_default"} /\ (at = "init_default" => default = None)
        BY <2>3
      <3> HIDE DEF c, at
      <3>4. c = made.contexts + 1
        BY DEF c
      <3> QED
        BY <2>1, <3>1, <3>2, <3>3, <3>4, InitMakes
    <2> QED
      BY <2>2, <2>3
  <1>2. CASE InitBackend(u, b)
    <2> DEFINE c == step[u].ctx
    <2>1. Starting(u) /\ c \notin ready /\ UNCHANGED <<made, objVars>>
      BY <1>2 DEF InitBackend, Starting
    <2>2. CASE b
      <3>1. /\ ready' = ready \cup {c} /\ initCount' = initCount + 1
            /\ UNCHANGED <<contexts, default, defRefs, defLock, token, step>>
        BY <1>2, <2>2 DEF InitBackend
      <3> QED
        BY <2>1, <3>1, BackendReady
    <2>3. CASE ~b
      <3>1. Undo(u, c) /\ ready' = ready \ {c} /\ initCount' = initCount
        BY <1>2, <2>1, <2>3 DEF InitBackend
      <3> QED
        BY <2>1, <3>1, UndoStep
    <2> QED
      BY <2>2, <2>3
  <1>3. CASE InitIo(u, b)
    <2> DEFINE c == step[u].ctx
               tok == [ctx |-> c, named |-> In(u, "init_named")]
    <2>1. Starting(u) /\ c \in ready /\ UNCHANGED <<made, objVars>>
      BY <1>3 DEF InitIo, Starting
    <2>2. CASE b
      <3>1. /\ token' = [token EXCEPT ![u] = tok] /\ defLock' = None /\ Leave(u)
            /\ UNCHANGED <<contexts, ready, default, defRefs, initCount>>
        BY <1>3, <2>2 DEF InitIo
      <3>2. token'[u] = tok /\ \A v \in Users : v # u => token'[v] = token[v]
        BY <3>1 DEF DevInv, Typed, DevTypeOK
      <3>3. tok.ctx = c /\ (~tok.named => In(u, "init_default"))
        BY <2>1 DEF Starting, In
      <3>4. tok # NoToken
        <4>1. c # 0
          BY <2>1, Fresh DEF DevInv, Typed, DevTypeOK
        <4> QED
          BY <4>1 DEF NoToken, None
      <3> HIDE DEF tok
      <3> QED
        BY <2>1, <3>1, <3>2, <3>3, <3>4, InitDone
    <2>3. CASE ~b
      <3>1. Undo(u, c) /\ ready' = ready \ {c} /\ initCount' = initCount - 1
        BY <1>3, <2>3 DEF InitIo
      <3> QED
        BY <2>1, <3>1, UndoStep
    <2> QED
      BY <2>2, <2>3
  <1> QED
    BY <1>1, <1>2, <1>3

-----------------------------------------------------------------------------
(* Types. *)

LEMMA StepTyped ==
    ASSUME DevTypeOK, NEW u \in Users,
           NEW at \in Places, NEW ctx \in Nat, NEW dev \in 0..made.devices,
           Enter(u, at, ctx, dev)
    PROVE  step' \in [Users -> [at : Places, ctx : Nat, dev : 0..made.devices]]
  <1> DEFINE S == [at : Places, ctx : Nat, dev : 0..made.devices]
             r == [at |-> at, ctx |-> ctx, dev |-> dev]
  <1>1. r \in S
    OBVIOUS
  <1>2. step \in [Users -> S] /\ step' = [step EXCEPT ![u] = r]
    BY DEF DevTypeOK, Enter
  <1> HIDE DEF S, r
  <1>3. step' \in [Users -> S]
    BY <1>1, <1>2
  <1> QED
    BY <1>3 DEF S

LEMMA LeaveTyped ==
    ASSUME DevTypeOK, NEW u \in Users, Leave(u)
    PROVE  step' \in [Users -> [at : Places, ctx : Nat, dev : 0..made.devices]]
  <1>1. "out" \in Places /\ None \in Nat /\ None \in 0..made.devices
    BY DEF Places, None, DevTypeOK
  <1>2. Enter(u, "out", None, None)
    BY DEF Leave, Enter, Out
  <1> QED
    BY <1>1, <1>2, StepTyped

LEMMA UnrefTyped ==
    ASSUME DevTypeOK, NEW u \in Users, NEW d \in 1..made.devices, Unref(u, d)
    PROVE  /\ step' \in [Users -> [at : Places, ctx : Nat, dev : 0..made.devices]]
           /\ refs' \in Seq(Int) /\ Len(refs') = made.devices
  <1>1. "free" \in Places /\ None \in Nat /\ d \in 0..made.devices
    BY DEF Places, None, DevTypeOK
  <1>2. step' \in [Users -> [at : Places, ctx : Nat, dev : 0..made.devices]]
    BY <1>1, StepTyped, LeaveTyped DEF Unref
  <1>3. refs' \in Seq(Int) /\ Len(refs') = made.devices
    BY DEF DevTypeOK, Unref
  <1> QED
    BY <1>2, <1>3

LEMMA InitTyped ==
    ASSUME Typed, CtxInv, NEW u \in Users, NEW b \in BOOLEAN,
           InitBegin(u, b) \/ InitBackend(u, b) \/ InitIo(u, b)
    PROVE  Typed' /\ made'.devices = made.devices
  <1>1. UNCHANGED objVars
    BY DEF InitBegin, InitBackend, InitIo
  <1> DEFINE T == [ctx : Nat, named : BOOLEAN]
  <1>2. CASE ~(InitBegin(u, b) /\ (b \/ default = None))
    <2> DEFINE c == step[u].ctx
    <2>1. c \in Nat /\ default \in Nat /\ made' = made
      BY <1>2, SMTT(30) DEF InitBegin, InitBackend, InitIo, Typed, DevTypeOK, None
    <2>2. /\ contexts' \subseteq contexts /\ ready' \subseteq contexts'
          /\ default' \in contexts' \cup {None}
          /\ defLock' \in Users \cup {None}
          /\ defRefs' \in Int /\ initCount' \in Int
      BY <1>2, SMTT(30) DEF InitBegin, InitBackend, InitIo, Undo, Typed, DevTypeOK, CtxInv, DevCallInv, Building, Starting, Alone
    <2>3. token' \in [Users -> T]
      <3>1. /\ [ctx |-> default, named |-> FALSE] \in T
            /\ [ctx |-> c, named |-> In(u, "init_named")] \in T
        BY <2>1 DEF In
      <3>2. token \in [Users -> T]
        BY DEF Typed, DevTypeOK
      <3>3. \/ token' = token
            \/ token' = [token EXCEPT ![u] = [ctx |-> default, named |-> FALSE]]
            \/ token' = [token EXCEPT ![u] = [ctx |-> c, named |-> In(u, "init_named")]]
        BY <1>2 DEF InitBegin, InitBackend, InitIo, Undo
      <3>4. \E t \in T : token' = token \/ token' = [token EXCEPT ![u] = t]
        BY <3>1, <3>3
      <3> HIDE DEF T
      <3> QED
        BY <3>2, <3>4
    <2>4. step' \in [Users -> [at : Places, ctx : Nat, dev : 0..made.devices]]
      <3>1. Leave(u) \/ UNCHANGED step
        BY <1>2 DEF InitBegin, InitBackend, InitIo, Undo
      <3> QED
        BY <3>1, LeaveTyped DEF Typed, DevTypeOK
    <2> QED
      BY <1>1, <2>1, <2>2, <2>3, <2>4 DEF objVars, Typed, DevTypeOK, Fin
  <1>3. CASE InitBegin(u, b) /\ (b \/ default = None)
    <2> DEFINE c == made.contexts + 1
               at == IF b THEN "init_named" ELSE "init_default"
    <2>1. /\ made' = [made EXCEPT !.contexts = c]
          /\ contexts' = contexts \cup {c} /\ default' \in {default, c}
          /\ defRefs' \in {defRefs, defRefs + 1} /\ defLock' = u
          /\ Enter(u, at, c, None) /\ UNCHANGED <<token, ready, initCount>>
      BY <1>3 DEF InitBegin
    <2>2. c \in Nat /\ made.contexts \in Nat /\ made.devices \in Nat /\ c = made.contexts + 1
      BY DEF Typed, DevTypeOK
    <2> HIDE DEF c
    <2>3. /\ made' \in [contexts : Nat, devices : Nat, handles : Nat, callbacks : Nat]
          /\ made'.contexts = c /\ made'.devices = made.devices
          /\ made'.handles = made.handles /\ made'.callbacks = made.callbacks
      BY <2>1, <2>2 DEF Typed, DevTypeOK
    <2>4. step' \in [Users -> [at : Places, ctx : Nat, dev : 0..made.devices]]
      <3>1. at \in Places /\ None \in 0..made.devices
        BY <2>2 DEF Places, None
      <3> HIDE DEF at
      <3> QED
        BY <2>1, <2>2, <3>1, StepTyped DEF Typed
    <2>5. /\ contexts' \subseteq 1..made'.contexts /\ ready' \subseteq contexts'
          /\ default' \in contexts' \cup {None}
      <3>1. contexts \subseteq 1..made.contexts /\ ready \subseteq contexts
            /\ default \in contexts \cup {None}
        BY DEF Typed, DevTypeOK
      <3>2. contexts' = contexts \cup {c} /\ default' \in {default, c} /\ ready' = ready
        BY <2>1
      <3>3. 1..made.contexts \subseteq 1..c /\ c \in 1..c
        BY <2>2
      <3> QED
        BY <2>3, <3>1, <3>2, <3>3
    <2>6. defRefs' \in Int /\ initCount' \in Int /\ defLock' \in Users \cup {None}
          /\ token' \in [Users -> T]
      BY <2>1 DEF Typed, DevTypeOK
    <2> QED
      BY <1>1, <2>3, <2>4, <2>5, <2>6 DEF objVars, Typed, DevTypeOK, Fin
  <1> QED
    BY <1>2, <1>3

LEMMA ExitTyped ==
    ASSUME Typed, CtxInv, NEW u \in Users,
           ExitBegin(u) \/ ExitLock(u) \/ ExitTeardown(u)
    PROVE  Typed' /\ made' = made
  <1> DEFINE c == step[u].ctx
  <1>1. UNCHANGED <<made, refs, home, freed, handles, appRefs>> /\ callbacks' \subseteq callbacks
    BY DEF ExitBegin, ExitLock, ExitTeardown, objVars
  <1>2. /\ contexts' \subseteq contexts /\ ready' \subseteq contexts'
        /\ default' \in contexts' \cup {None}
        /\ defLock' \in Users \cup {None}
        /\ defRefs' \in Int /\ initCount' \in Int
    <2>1. /\ ready \subseteq contexts /\ default \in contexts \cup {None}
          /\ defLock \in Users \cup {None} /\ defRefs \in Int /\ initCount \in Int
      BY DEF Typed, DevTypeOK
    <2>2. CASE ExitBegin(u)
      BY <2>1, <2>2 DEF ExitBegin, ctxVars
    <2>3. CASE ExitLock(u)
      BY <2>1, <2>3 DEF ExitLock
    <2>4. CASE ExitTeardown(u)
      <3>1. /\ contexts' = contexts \ {c} /\ ready' = ready \ {c} /\ defRefs' = defRefs
            /\ initCount' = initCount - 1
            /\ default' = None \/ (default' = default /\ In(u, "teardown"))
            /\ defLock' \in {None, defLock}
        BY <2>4 DEF ExitTeardown, Tearing, In
      <3>2. In(u, "teardown") => c # default
        BY DEF CtxInv, DevCallInv
      <3> QED
        BY <2>1, <3>1, <3>2
    <2> QED
      BY <2>2, <2>3, <2>4
  <1>3. token' \in [Users -> [ctx : Nat, named : BOOLEAN]]
    <2> DEFINE T == [ctx : Nat, named : BOOLEAN]
    <2>1. NoToken \in T
      BY DEF NoToken, None
    <2>2. token \in [Users -> T]
      BY DEF Typed, DevTypeOK
    <2>3. token' = token \/ token' = [token EXCEPT ![u] = NoToken]
      BY DEF ExitBegin, ExitLock, ExitTeardown, ctxVars
    <2> HIDE DEF T
    <2>4. token' \in [Users -> T]
      BY <2>1, <2>2, <2>3
    <2> QED
      BY <2>4 DEF T
  <1>4. step' \in [Users -> [at : Places, ctx : Nat, dev : 0..made.devices]]
    <2>1. /\ c \in Nat /\ token[u].ctx \in Nat /\ default \in Nat /\ None \in 0..made.devices
      BY DEF Typed, DevTypeOK, None
    <2>2. {"exit", "teardown", "teardown_default"} \subseteq Places
      BY DEF Places
    <2>3. CASE ExitBegin(u)
      <3>1. \E x \in Nat : Enter(u, "exit", x, None)
        BY <2>1, <2>3 DEF ExitBegin
      <3> QED
        BY <2>1, <2>2, <3>1, StepTyped DEF Typed
    <2>4. CASE ~ExitBegin(u)
      <3>1. Leave(u) \/ Enter(u, "teardown", c, None) \/ Enter(u, "teardown_default", c, None)
        BY <2>4 DEF ExitLock, ExitTeardown
      <3> QED
        BY <2>1, <2>2, <3>1, StepTyped, LeaveTyped DEF Typed
    <2> QED
      BY <2>3, <2>4
  <1> QED
    BY <1>1, <1>2, <1>3, <1>4 DEF Typed, DevTypeOK, Fin

LEMMA WrapTyped ==
    ASSUME Typed, NEW u \in Users, NEW ok \in BOOLEAN, WrapSysDevice(u, ok)
    PROVE  /\ Typed' /\ made'.devices = made.devices + 1 /\ made'.contexts = made.contexts
           /\ NewHandle(u, made.devices + 1, token[u].ctx) \notin handles
  <1> DEFINE d == made.devices + 1
             c == token[u].ctx
             m == IF ok THEN made.handles + 1 ELSE made.handles
             new == NewHandle(u, d, c)
  <1>1. /\ refs' = Append(refs, IF ok THEN 1 ELSE 0) /\ home' = Append(home, c)
        /\ freed' = IF ok THEN freed ELSE freed \cup {d}
        /\ handles' = IF ok THEN handles \cup {new} ELSE handles
        /\ made' = [made EXCEPT !.devices = d, !.handles = IF ok THEN @ + 1 ELSE @]
        /\ UNCHANGED <<ctxVars, appRefs, callbacks, step>>
    BY DEF WrapSysDevice
  <1>2. /\ made.contexts \in Nat /\ made.devices \in Nat /\ made.handles \in Nat
        /\ made.callbacks \in Nat /\ c \in Nat
    BY DEF Typed, DevTypeOK
  <1>3. /\ made' \in [contexts : Nat, devices : Nat, handles : Nat, callbacks : Nat]
        /\ made'.contexts = made.contexts /\ made'.devices = d
        /\ made'.handles = m /\ made'.callbacks = made.callbacks
    <2>1. made' = [made EXCEPT !.devices = d, !.handles = m]
      BY <1>1
    <2>2. d \in Nat /\ m \in Nat
      BY <1>2
    <2>3. made \in [contexts : Nat, devices : Nat, handles : Nat, callbacks : Nat]
      BY DEF Typed, DevTypeOK
    <2> HIDE DEF d, m
    <2> QED
      BY <2>1, <2>2, <2>3
  <1>4. /\ d \in Nat /\ m \in Nat /\ 1..made.devices \subseteq 1..d /\ d \in 1..d
        /\ 0..made.devices \subseteq 0..d /\ 1..made.handles \subseteq 1..m
        /\ d = made.devices + 1 /\ (ok => made.handles + 1 \in 1..m)
    BY <1>2
  <1>5. /\ new.id = made.handles + 1 /\ new.dev = d /\ new.ctx = c /\ new.user = u
        /\ new = [id |-> made.handles + 1, dev |-> d, ctx |-> c, user |-> u]
    BY DEF NewHandle
  <1>6. \A h \in handles : h.id # new.id
    BY <1>2, <1>5 DEF Typed, DevTypeOK
  <1>7. ok => new \in [id : 1..m, dev : 1..d, ctx : Nat, user : Users]
    BY <1>2, <1>4, <1>5
  <1> HIDE DEF d, m, new, c
  <1>8. handles' \subseteq [id : 1..m, dev : 1..d, ctx : Nat, user : Users]
    BY <1>1, <1>4, <1>7, SMTT(30) DEF Typed, DevTypeOK
  <1>9. /\ refs' \in Seq(Int) /\ Len(refs') = d
        /\ home' \in Seq(Nat) /\ Len(home') = d
        /\ freed' \subseteq 1..d
    BY <1>1, <1>2, <1>4, SMTT(30) DEF Typed, DevTypeOK
  <1>10. /\ appRefs' \subseteq [user : Users, dev : 1..d]
         /\ step' \in [Users -> [at : Places, ctx : Nat, dev : 0..d]]
    <2>1. /\ appRefs \subseteq [user : Users, dev : 1..made.devices]
          /\ step \in [Users -> [at : Places, ctx : Nat, dev : 0..made.devices]]
      BY DEF Typed, DevTypeOK
    <2>2. \A v \in Users : step[v] \in [at : Places, ctx : Nat, dev : 0..d]
      BY <1>4, <2>1
    <2> QED
      BY <1>1, <1>4, <2>1, <2>2
  <1>11. IsFiniteSet(handles') /\ IsFiniteSet(appRefs')
    BY <1>1, FS_AddElement DEF Typed, Fin
  <1> QED
    BY <1>1, <1>3, <1>4, <1>6, <1>8, <1>9, <1>10, <1>11
    DEF ctxVars, Typed, DevTypeOK, Fin, new, d, c

LEMMA OpenEndTyped ==
    ASSUME Typed, NEW u \in Users, NEW ok \in BOOLEAN, OpenEnd(u, ok),
           step[u].dev \in 1..made.devices
    PROVE  /\ Typed' /\ made'.devices = made.devices /\ made'.contexts = made.contexts
           /\ NewHandle(u, step[u].dev, home[step[u].dev]) \notin handles
  <1> DEFINE d == step[u].dev
             c == home[d]
             new == NewHandle(u, d, c)
             n == made.handles + 1
             H == [id : 1..n, dev : 1..made.devices, ctx : Nat, user : Users]
  <1>1. UNCHANGED <<ctxVars, home, freed, appRefs, callbacks>>
    BY DEF OpenEnd
  <1>2. /\ made.contexts \in Nat /\ made.devices \in Nat /\ made.handles \in Nat
        /\ made.callbacks \in Nat /\ c \in Nat /\ d \in 1..made.devices
        /\ n \in 1..n /\ 1..made.handles \subseteq 1..n
    BY SMTT(30) DEF Typed, DevTypeOK
  <1>3. /\ new.id = n /\ new = [id |-> n, dev |-> d, ctx |-> c, user |-> u]
    BY DEF NewHandle
  <1>4. \A h \in handles : h.id # new.id
    BY <1>2, <1>3 DEF Typed, DevTypeOK
  <1>5. new \in H /\ handles \subseteq H
    BY <1>2, <1>3 DEF Typed, DevTypeOK
  <1>6. CASE ok
    <2>1. handles' = handles \cup {new} /\ refs' = refs /\ Leave(u)
          /\ made' = [made EXCEPT !.handles = @ + 1]
      BY <1>6 DEF OpenEnd
    <2>2. /\ made' \in [contexts : Nat, devices : Nat, handles : Nat, callbacks : Nat]
          /\ made'.contexts = made.contexts /\ made'.devices = made.devices
          /\ made'.handles = n /\ made'.callbacks = made.callbacks
      <3>1. made' = [made EXCEPT !.handles = n] /\ n \in Nat
        BY <1>2, <2>1
      <3>2. made \in [contexts : Nat, devices : Nat, handles : Nat, callbacks : Nat]
        BY DEF Typed, DevTypeOK
      <3> HIDE DEF n
      <3> QED
        BY <3>1, <3>2
    <2>3. step' \in [Users -> [at : Places, ctx : Nat, dev : 0..made.devices]]
      BY <2>1, LeaveTyped DEF Typed
    <2>4. handles' \subseteq H /\ IsFiniteSet(handles')
      <3> HIDE DEF H, new
      <3> QED
        BY <1>5, <2>1, FS_AddElement DEF Typed, Fin
    <2> HIDE DEF new
    <2> QED
      BY <1>1, <1>4, <2>1, <2>2, <2>3, <2>4 DEF ctxVars, Typed, DevTypeOK, Fin, new
  <1>7. CASE ~ok
    <2>1. Unref(u, d) /\ handles' = handles /\ made' = made
      BY <1>7 DEF OpenEnd, OpenFails
    <2>2. /\ step' \in [Users -> [at : Places, ctx : Nat, dev : 0..made.devices]]
          /\ refs' \in Seq(Int) /\ Len(refs') = made.devices
      BY <2>1, UnrefTyped DEF Typed
    <2> HIDE DEF new
    <2> QED
      BY <1>1, <1>4, <2>1, <2>2 DEF ctxVars, Typed, DevTypeOK, Fin, new
  <1> QED
    BY <1>6, <1>7

\* The calls that make no device and no handle.
QuietCall(u) ==
  \/ \E h \in handles : RefDevice(u, h) \/ CloseHandle(u, h)
  \/ \E d \in 1..made.devices : UnrefDevice(u, d) \/ OpenBegin(u, d)
  \/ \E d \in 1..made.devices, v \in Users : HandOver(u, v, d)
  \/ FreeDevice(u) \/ RegisterCallback(u) \/ DropCallbacks(u)
  \/ \E k \in callbacks : DeregisterCallback(u, k)

LEMMA QuietTyped ==
    ASSUME Typed, NEW u \in Users, QuietCall(u), In(u, "free") => step[u].dev \in 1..made.devices
    PROVE  Typed' /\ made'.devices = made.devices /\ made'.contexts = made.contexts
  <1> DEFINE A == [user : Users, dev : 1..made.devices]
             C(n) == [id : 1..n, ctx : Nat, drop : BOOLEAN]
             S == [Users -> [at : Places, ctx : Nat, dev : 0..made.devices]]
             n == made.callbacks + 1
  <1>1. /\ made \in [contexts : Nat, devices : Nat, handles : Nat, callbacks : Nat]
        /\ made.contexts \in Nat /\ made.devices \in Nat /\ made.handles \in Nat
        /\ made.callbacks \in Nat /\ token[u].ctx \in Nat
        /\ appRefs \subseteq A /\ callbacks \subseteq C(made.callbacks) /\ step \in S
        /\ refs \in Seq(Int) /\ Len(refs) = made.devices
    BY DEF Typed, DevTypeOK
  <1>2. UNCHANGED <<ctxVars, home>> /\ handles' \subseteq handles
    BY DEF QuietCall, RefDevice, CloseHandle, UnrefDevice, OpenBegin, HandOver, FreeDevice,
           RegisterCallback, DropCallbacks, DeregisterCallback
  <1>3. \A h \in handles : h.user \in Users /\ h.dev \in 1..made.devices
    BY DEF Typed, DevTypeOK
  <1>4. step' \in S /\ refs' \in Seq(Int) /\ Len(refs') = made.devices
    <2>1. {"open", "free"} \subseteq Places /\ None \in Nat /\ 1..made.devices \subseteq 0..made.devices
      BY DEF Places, None
    <2>2. CASE \E d \in 1..made.devices : Unref(u, d)
      BY <2>2, UnrefTyped DEF Typed
    <2>3. CASE \E d \in 1..made.devices : Enter(u, "open", None, d) /\ refs' = [refs EXCEPT ![d] = @ + 1]
      <3>1. step' \in S
        BY <2>1, <2>3, StepTyped DEF Typed
      <3> QED
        BY <1>1, <2>3, <3>1
    <2>4. CASE (UNCHANGED step \/ Leave(u)) /\ (UNCHANGED refs \/ \E d \in 1..made.devices : refs' = [refs EXCEPT ![d] = @ + 1])
      <3>1. step' \in S
        BY <1>1, <2>4, LeaveTyped DEF Typed
      <3>2. refs \in Seq(Int) /\ Len(refs) = made.devices
        BY <1>1
      <3>3. CASE UNCHANGED refs
        BY <3>1, <3>2, <3>3
      <3>4. CASE \E d \in 1..made.devices : refs' = [refs EXCEPT ![d] = @ + 1]
        BY <3>1, <3>2, <3>4
      <3> QED
        BY <2>4, <3>3, <3>4
    <2>5. \/ \E d \in 1..made.devices : Unref(u, d)
          \/ \E d \in 1..made.devices : Enter(u, "open", None, d) /\ refs' = [refs EXCEPT ![d] = @ + 1]
          \/ (UNCHANGED step \/ Leave(u)) /\ (UNCHANGED refs \/ \E d \in 1..made.devices : refs' = [refs EXCEPT ![d] = @ + 1])
      BY <1>3 DEF QuietCall, RefDevice, CloseHandle, UnrefDevice, OpenBegin, HandOver, FreeDevice,
           RegisterCallback, DropCallbacks, DeregisterCallback
    <2> QED
      BY <2>2, <2>3, <2>4, <2>5
  <1>5. freed' \subseteq 1..made.devices
    BY DEF Typed, DevTypeOK, QuietCall, RefDevice, CloseHandle, UnrefDevice, OpenBegin,
           HandOver, FreeDevice, RegisterCallback, DropCallbacks, DeregisterCallback
  <1>6. appRefs' \subseteq A /\ IsFiniteSet(appRefs')
    <2>1. \A v \in Users, d \in 1..made.devices : [user |-> v, dev |-> d] \in A
      OBVIOUS
    <2>2. \/ \E a \in A : appRefs' = appRefs \cup {a} \/ appRefs' = appRefs \ {a}
          \/ \E a, b \in A : appRefs' = (appRefs \ {a}) \cup {b}
          \/ appRefs' = appRefs
      <3>1. CASE \E h \in handles : RefDevice(u, h)
        BY <1>3, <2>1, <3>1 DEF RefDevice
      <3>2. CASE \E d \in 1..made.devices : UnrefDevice(u, d)
        BY <2>1, <3>2 DEF UnrefDevice
      <3>3. CASE \E d \in 1..made.devices, v \in Users : HandOver(u, v, d)
        BY <2>1, <3>3 DEF HandOver
      <3> QED
        BY <3>1, <3>2, <3>3 DEF QuietCall, CloseHandle, OpenBegin, FreeDevice,
           RegisterCallback, DropCallbacks, DeregisterCallback
    <2>3. IsFiniteSet(appRefs)
      BY DEF Typed, Fin
    <2> HIDE DEF A
    <2>4. \A a \in A : IsFiniteSet(appRefs \cup {a}) /\ IsFiniteSet(appRefs \ {a})
      BY <2>3, FS_AddElement, FS_RemoveElement
    <2>5. \A a, b \in A : IsFiniteSet((appRefs \ {a}) \cup {b})
      <3> SUFFICES ASSUME NEW a \in A, NEW b \in A
                   PROVE  IsFiniteSet((appRefs \ {a}) \cup {b})
        OBVIOUS
      <3>1. IsFiniteSet(appRefs \ {a})
        BY <2>4
      <3> QED
        BY <3>1, FS_AddElement
    <2>6. appRefs \subseteq A
      BY <1>1
    <2> QED
      BY <2>2, <2>3, <2>4, <2>5, <2>6
  <1>7. /\ made' \in [contexts : Nat, devices : Nat, handles : Nat, callbacks : Nat]
        /\ made'.contexts = made.contexts /\ made'.devices = made.devices
        /\ made'.handles = made.handles
        /\ callbacks' \subseteq C(made'.callbacks)
    <2>1. CASE RegisterCallback(u)
      <3> DEFINE k == [id |-> n, ctx |-> token[u].ctx, drop |-> FALSE]
      <3>1. /\ made' = [made EXCEPT !.callbacks = n] /\ callbacks' = callbacks \cup {k}
            /\ n \in Nat /\ 1..made.callbacks \subseteq 1..n /\ n \in 1..n
        BY <1>1, <2>1 DEF RegisterCallback
      <3>2. k \in C(n) /\ C(made.callbacks) \subseteq C(n)
        BY <1>1, <3>1
      <3> HIDE DEF k, n, C
      <3>3. /\ made' \in [contexts : Nat, devices : Nat, handles : Nat, callbacks : Nat]
            /\ made'.contexts = made.contexts /\ made'.devices = made.devices
            /\ made'.handles = made.handles /\ made'.callbacks = n
        BY <1>1, <3>1
      <3> QED
        BY <1>1, <3>1, <3>2, <3>3
    <2>2. CASE ~RegisterCallback(u)
      <3>1. made' = made
        BY <2>2 DEF QuietCall, RefDevice, CloseHandle, UnrefDevice, OpenBegin, HandOver, FreeDevice,
           DropCallbacks, DeregisterCallback
      <3>2. callbacks' \subseteq callbacks \/ \E k \in callbacks : DeregisterCallback(u, k)
        BY <2>2 DEF QuietCall, RefDevice, CloseHandle, UnrefDevice, OpenBegin, HandOver, FreeDevice,
           DropCallbacks
      <3>3. CASE \E k \in callbacks : DeregisterCallback(u, k)
        <4>1. PICK k \in callbacks : callbacks' = (callbacks \ {k}) \cup {[k EXCEPT !.drop = TRUE]}
          BY <3>3 DEF DeregisterCallback
        <4>2. [k EXCEPT !.drop = TRUE] \in C(made.callbacks)
          BY <1>1
        <4> HIDE DEF C
        <4> QED
          BY <1>1, <3>1, <4>1, <4>2
      <3> HIDE DEF C
      <3> QED
        BY <1>1, <3>1, <3>2, <3>3
    <2> QED
      BY <2>1, <2>2
  <1>8. IsFiniteSet(handles')
    BY <1>2, FS_Subset DEF Typed, Fin
  <1> HIDE DEF A, S
  <1> QED
    BY <1>2, <1>4, <1>5, <1>6, <1>7, <1>8 DEF ctxVars, Typed, DevTypeOK, Fin, A, S

-----------------------------------------------------------------------------
(* Calls on devices, handles and callbacks leave the contexts alone. *)

LEMMA SameCounts ==
    ASSUME ContextCountsExact, NEW u \in Users, UNCHANGED ctxVars,
           \A v \in Users : v # u => step'[v] = step[v],
           step[u].at \in {"out", "open", "free"},
           step'[u].at \in {"out", "open", "free"}
    PROVE  ContextCountsExact'
  <1>1. /\ ready' = ready /\ default' = default /\ defRefs' = defRefs /\ token' = token
        /\ initCount' = initCount
    BY DEF ctxVars
  <1>2. DefaultUsers' = DefaultUsers
    <2>1. \A v \in Users : step[v].at \in {"init_named", "init_default"} => step'[v] = step[v]
      OBVIOUS
    <2>2. \A v \in Users : step'[v].at \in {"init_named", "init_default"} => step'[v] = step[v]
      OBVIOUS
    <2> QED
      BY <1>1, <2>1, <2>2 DEF DefaultUsers
  <1> QED
    BY <1>1, <1>2 DEF ContextCountsExact

LEMMA WrapCtx ==
    ASSUME Typed, CtxInv, ContextCountsExact, NEW u \in Users, NEW ok \in BOOLEAN,
           WrapSysDevice(u, ok)
    PROVE  CtxInv' /\ ContextCountsExact'
  <1> DEFINE d == made.devices + 1
             new == NewHandle(u, d, token[u].ctx)
  <1>1. /\ step[u].at = "out" /\ Holds(u) /\ step' = step /\ UNCHANGED ctxVars
        /\ home' = Append(home, token[u].ctx) /\ callbacks' = callbacks
        /\ handles' \subseteq handles \cup {new}
    BY DEF WrapSysDevice, Free, In, Holds
  <1>2. made'.devices = made.devices + 1 /\ made'.contexts = made.contexts
    BY WrapTyped
  <1>3. \A e \in 1..made.devices : home'[e] = home[e]
    BY <1>1 DEF Typed, DevTypeOK
  <1>4. new.user = u /\ new.ctx = token[u].ctx
    BY DEF NewHandle
  <1>5. made.devices \in Nat
    BY DEF Typed, DevTypeOK
  <1> HIDE DEF d, new
  <1>6. \A h \in handles' : h \in handles \/ (h.user = u /\ Holds(u) /\ h.ctx = token[u].ctx)
    BY <1>1, <1>4
  <1>7. /\ made'.devices \in Nat /\ made'.devices >= made.devices
        /\ step'[u].at = "out" /\ \A v \in Users : v # u => step'[v] = step[v]
        /\ \A k \in callbacks' : \E j \in callbacks : j.ctx = k.ctx
    BY <1>1, <1>2, <1>5
  <1>8. ContextCountsExact'
    BY <1>1, <1>7, SameCounts
  <1>9. CtxInv'
    BY <1>1, <1>2, <1>3, <1>6, <1>7, ObjectStep
  <1> QED
    BY <1>8, <1>9

LEMMA OpenEndCtx ==
    ASSUME Typed, CtxInv, ContextCountsExact, NEW u \in Users, NEW ok \in BOOLEAN,
           OpenEnd(u, ok)
    PROVE  CtxInv' /\ ContextCountsExact'
  <1> DEFINE d == step[u].dev
             new == NewHandle(u, d, home[d])
  <1>1. /\ step[u].at = "open" /\ UNCHANGED ctxVars
        /\ home' = home /\ callbacks' = callbacks
        /\ handles' \subseteq handles \cup {new}
        /\ Leave(u) \/ Unref(u, d)
    BY DEF OpenEnd, OpenFails, In
  <1>2. Holds(u) /\ d \in 1..made.devices /\ home[d] = token[u].ctx
    BY <1>1 DEF CtxInv, DevCallInv, In
  <1>3. made'.devices = made.devices /\ made'.contexts = made.contexts /\ made.devices \in Nat
    BY <1>2, OpenEndTyped DEF Typed, DevTypeOK
  <1>4. new.user = u /\ new.ctx = token[u].ctx
    BY <1>2 DEF NewHandle
  <1>5. step'[u].at \in {"out", "free"} /\ \A v \in Users : v # u => step'[v] = step[v]
    BY <1>1, <1>2, LeaveStep, UnrefStep DEF Typed
  <1> HIDE DEF d, new
  <1>6. \A h \in handles' : h \in handles \/ (h.user = u /\ Holds(u) /\ h.ctx = token[u].ctx)
    BY <1>1, <1>2, <1>4
  <1> QED
    BY <1>1, <1>3, <1>5, <1>6, ObjectStep, SameCounts

LEMMA QuietCtx ==
    ASSUME Typed, CtxInv, ContextCountsExact, FreeInv, NEW u \in Users, QuietCall(u)
    PROVE  CtxInv' /\ ContextCountsExact'
  <1>1. /\ UNCHANGED <<ctxVars, home>> /\ handles' \subseteq handles
        /\ step[u].at \in {"out", "free"}
    BY DEF QuietCall, RefDevice, CloseHandle, UnrefDevice, OpenBegin, HandOver, FreeDevice,
           RegisterCallback, DropCallbacks, DeregisterCallback, Free, In
  <1>2. made'.devices = made.devices /\ made'.contexts = made.contexts /\ made.devices \in Nat
    BY QuietTyped DEF Typed, DevTypeOK, FreeInv, In
  <1>3. \A h \in handles : h.user \in Users /\ h.dev \in 1..made.devices
    BY DEF Typed, DevTypeOK
  <1>4. \/ \E d \in 1..made.devices : Unref(u, d)
        \/ \E d \in 1..made.devices : OpenBegin(u, d)
        \/ (UNCHANGED step \/ Leave(u))
    BY <1>3 DEF QuietCall, RefDevice, CloseHandle, UnrefDevice, HandOver, FreeDevice,
           RegisterCallback, DropCallbacks, DeregisterCallback
  <1>5. /\ \A v \in Users : v # u => step'[v] = step[v]
        /\ step'[u].at \in {"out", "open", "free"}
        /\ step'[u].at = "open" =>
             Holds(u) /\ step'[u].dev \in 1..made.devices /\ home[step'[u].dev] = token[u].ctx
    <2>1. CASE \E d \in 1..made.devices : Unref(u, d)
      BY <2>1, UnrefStep DEF Typed
    <2>2. CASE \E d \in 1..made.devices : OpenBegin(u, d)
      <3>1. PICK d \in 1..made.devices : OpenBegin(u, d)
        BY <2>2
      <3>2. Enter(u, "open", None, d) /\ Holds(u) /\ home[d] = token[u].ctx
        BY <3>1 DEF OpenBegin, Free, Holds
      <3> QED
        BY <3>2, EnterStep DEF Typed
    <2>3. CASE UNCHANGED step \/ Leave(u)
      BY <1>1, <2>3, LeaveStep DEF Typed
    <2> QED
      BY <1>4, <2>1, <2>2, <2>3
  <1>6. \A k \in callbacks' :
          (\E j \in callbacks : j.ctx = k.ctx) \/ (Holds(u) /\ k.ctx = token[u].ctx)
    <2>1. CASE RegisterCallback(u)
      BY <2>1 DEF RegisterCallback, Free, Holds
    <2>2. CASE \E k \in callbacks : DeregisterCallback(u, k)
      <3>1. PICK k \in callbacks : DeregisterCallback(u, k)
        BY <2>2
      <3>2. callbacks' = (callbacks \ {k}) \cup {[k EXCEPT !.drop = TRUE]}
            /\ [k EXCEPT !.drop = TRUE].ctx = k.ctx
        BY <3>1 DEF DeregisterCallback, Typed, DevTypeOK
      <3> QED
        BY <3>2
    <2>3. CASE callbacks' \subseteq callbacks
      BY <2>3
    <2> QED
      BY <2>1, <2>2, <2>3 DEF QuietCall, RefDevice, CloseHandle, UnrefDevice, OpenBegin,
           HandOver, FreeDevice, DropCallbacks
  <1> QED
    <2>1. /\ \A d \in 1..made.devices : home'[d] = home[d]
          /\ \A h \in handles' : h \in handles
          /\ UNCHANGED ctxVars /\ home' = home
      BY <1>1
    <2> QED
      BY <1>1, <1>2, <1>5, <1>6, <2>1, ObjectStep, SameCounts

-----------------------------------------------------------------------------
(* References. *)

RefsAgree == FreeInv /\ RefInv

LEMMA Positive ==
    ASSUME NEW S, IsFiniteSet(S), NEW x \in S
    PROVE  Cardinality(S) \in Nat /\ Cardinality(S) >= 1
  BY FS_EmptySet, FS_CardinalityType

(* A device that anything refers to is neither freed nor being freed. *)
LEMMA Referred ==
    ASSUME Typed, RefsAgree, NEW d \in 1..made.devices,
           HandlesOf(d) # {} \/ AppsOf(d) # {} \/ Opening(d) # {}
    PROVE  /\ refs[d] \in Int /\ refs[d] >= 1 /\ d \notin freed
           /\ \A v \in Users : In(v, "free") => step[v].dev # d
  <1> DEFINE a == Cardinality(HandlesOf(d))
             b == Cardinality(AppsOf(d))
             c == Cardinality(Opening(d))
  <1>1. /\ a \in Nat /\ b \in Nat /\ c \in Nat
        /\ IsFiniteSet(HandlesOf(d)) /\ IsFiniteSet(AppsOf(d)) /\ IsFiniteSet(Opening(d))
    BY Sizes
  <1>2. a >= 1 \/ b >= 1 \/ c >= 1
    BY <1>1, Positive
  <1>3. refs[d] = a + b + c /\ (d \in freed => refs[d] = 0)
    BY DEF RefsAgree, RefInv
  <1> HIDE DEF a, b, c
  <1>4. refs[d] \in Int /\ refs[d] >= 1
    BY <1>1, <1>2, <1>3
  <1> QED
    BY <1>3, <1>4 DEF RefsAgree, FreeInv

\* What every other thread keeps while u makes its step.
LEMMA SameRefs ==
    ASSUME Typed, RefsAgree, NEW u \in Users, made'.devices = made.devices,
           UNCHANGED <<refs, freed, handles, appRefs>>,
           \A v \in Users : v # u => step'[v] = step[v],
           step[u].at \notin {"open", "free"} \/ step'[u] = step[u],
           step'[u].at \notin {"open", "free"} \/ step'[u] = step[u]
    PROVE  RefsAgree'
  <1>1. \A v \in Users : \/ step'[v] = step[v]
                         \/ /\ step[v].at \notin {"open", "free"}
                            /\ step'[v].at \notin {"open", "free"}
    OBVIOUS
  <1>2. FreeInv'
    BY <1>1 DEF RefsAgree, FreeInv, In
  <1>3. \A d : HandlesOf(d)' = HandlesOf(d) /\ AppsOf(d)' = AppsOf(d) /\ Opening(d)' = Opening(d)
    BY <1>1 DEF HandlesOf, AppsOf, Opening, In
  <1> QED
    BY <1>2, <1>3 DEF RefsAgree, RefInv

(* One count changes, with the references to that device. *)
LEMMA OneCount ==
    ASSUME RefInv, NEW d \in 1..made.devices, made'.devices = made.devices,
           \A e \in 1..made.devices : e # d =>
             /\ HandlesOf(e)' = HandlesOf(e) /\ AppsOf(e)' = AppsOf(e)
             /\ Opening(e)' = Opening(e) /\ refs'[e] = refs[e],
           refs'[d] = Cardinality(HandlesOf(d)') + Cardinality(AppsOf(d)')
                        + Cardinality(Opening(d)'),
           freed' = freed, d \notin freed
    PROVE  RefInv'
  BY DEF RefInv

(* The last reference is dropped by the thread that will free. *)
LEMMA UnrefAgrees ==
    ASSUME Typed, RefsAgree, NEW u \in Users, NEW d \in 1..made.devices, Unref(u, d),
           HandlesOf(d) # {} \/ AppsOf(d) # {} \/ Opening(d) # {},
           step[u].at \notin {"free"}, made'.devices = made.devices, freed' = freed,
           \A e \in 1..made.devices : e # d =>
             HandlesOf(e)' = HandlesOf(e) /\ AppsOf(e)' = AppsOf(e) /\ Opening(e)' = Opening(e),
           Cardinality(HandlesOf(d)') + Cardinality(AppsOf(d)') + Cardinality(Opening(d)')
             = (Cardinality(HandlesOf(d)) + Cardinality(AppsOf(d)) + Cardinality(Opening(d))) - 1
    PROVE  RefsAgree'
  <1>1. /\ refs[d] \in Int /\ refs[d] >= 1 /\ d \notin freed
        /\ \A v \in Users : In(v, "free") => step[v].dev # d
    BY Referred
  <1>2. /\ step'[u].at \in {"out", "free"} /\ step'[u].dev \in {None, d}
        /\ step'[u].at = "free" <=> refs[d] = 1
        /\ step'[u].at = "free" => step'[u].dev = d
        /\ \A v \in Users : v # u => step'[v] = step[v]
        /\ refs' = [refs EXCEPT ![d] = @ - 1]
    BY UnrefStep DEF Typed
  <1>3. refs'[d] = refs[d] - 1 /\ \A e \in 1..made.devices : e # d => refs'[e] = refs[e]
    BY <1>2 DEF Typed, DevTypeOK
  <1>4. RefInv'
    <2>1. refs[d] = Cardinality(HandlesOf(d)) + Cardinality(AppsOf(d)) + Cardinality(Opening(d))
      BY DEF RefsAgree, RefInv
    <2>2. refs'[d] = Cardinality(HandlesOf(d)') + Cardinality(AppsOf(d)')
                       + Cardinality(Opening(d)')
      BY <1>1, <1>3, <2>1
    <2> QED
      BY <1>1, <1>3, <2>2, OneCount DEF RefsAgree
  <1>5. FreeInv'
    <2> SUFFICES ASSUME NEW v \in Users
                 PROVE  /\ step'[v].at \in {"open", "free"} => step'[v].dev \in 1..made.devices
                        /\ In(v, "free")' => refs'[step'[v].dev] = 0 /\ step'[v].dev \notin freed
                        /\ \A w \in Users : In(v, "free")' /\ In(w, "free")' /\ v # w
                             => step'[v].dev # step'[w].dev
      BY DEF FreeInv
    <2>1. \A w \in Users : w # u /\ In(w, "free")' =>
            /\ In(w, "free") /\ step'[w] = step[w] /\ step[w].dev # d
            /\ step[w].dev \in 1..made.devices
      BY <1>1, <1>2 DEF RefsAgree, FreeInv, In
    <2>2. CASE v = u
      BY <1>1, <1>2, <1>3, <2>1, <2>2 DEF In
    <2>3. CASE v # u
      <3>1. step'[v] = step[v]
        BY <1>2, <2>3
      <3>2. In(v, "free")' => refs'[step'[v].dev] = 0 /\ step'[v].dev \notin freed
        BY <1>3, <2>1, <2>3 DEF RefsAgree, FreeInv
      <3>3. \A w \in Users : In(v, "free")' /\ In(w, "free")' /\ v # w
              => step'[v].dev # step'[w].dev
        BY <1>2, <2>1, <2>3 DEF RefsAgree, FreeInv, In
      <3> QED
        BY <3>1, <3>2, <3>3 DEF RefsAgree, FreeInv
    <2> QED
      BY <2>2, <2>3
  <1> QED
    BY <1>4, <1>5 DEF RefsAgree

(* A reference is added to a device that had one, by a thread that frees   *)
(* nothing.                                                                *)
LEMMA RefAgrees ==
    ASSUME Typed, RefsAgree, NEW u \in Users, NEW d \in 1..made.devices,
           refs' = [refs EXCEPT ![d] = @ + 1],
           HandlesOf(d) # {} \/ AppsOf(d) # {},
           step[u].at = "out", step'[u].at \in {"out", "open"},
           step'[u].at = "open" => step'[u].dev = d,
           \A v \in Users : v # u => step'[v] = step[v],
           made'.devices = made.devices, freed' = freed,
           \A e \in 1..made.devices : e # d =>
             HandlesOf(e)' = HandlesOf(e) /\ AppsOf(e)' = AppsOf(e) /\ Opening(e)' = Opening(e),
           Cardinality(HandlesOf(d)') + Cardinality(AppsOf(d)') + Cardinality(Opening(d)')
             = Cardinality(HandlesOf(d)) + Cardinality(AppsOf(d)) + Cardinality(Opening(d)) + 1
    PROVE  RefsAgree'
  <1>1. /\ refs[d] \in Int /\ refs[d] >= 1 /\ d \notin freed
        /\ \A v \in Users : In(v, "free") => step[v].dev # d
    BY Referred
  <1>2. refs'[d] = refs[d] + 1 /\ \A e \in 1..made.devices : e # d => refs'[e] = refs[e]
    BY DEF Typed, DevTypeOK
  <1>3. RefInv'
    <2>1. refs[d] = Cardinality(HandlesOf(d)) + Cardinality(AppsOf(d)) + Cardinality(Opening(d))
      BY DEF RefsAgree, RefInv
    <2>2. refs'[d] = Cardinality(HandlesOf(d)') + Cardinality(AppsOf(d)')
                       + Cardinality(Opening(d)')
      BY <1>1, <1>2, <2>1
    <2> QED
      BY <1>1, <1>2, <2>2, OneCount DEF RefsAgree
  <1>4. FreeInv'
    <2>1. \A w \in Users : In(w, "free")' =>
            /\ In(w, "free") /\ step'[w] = step[w] /\ step[w].dev # d
            /\ step[w].dev \in 1..made.devices
      BY <1>1 DEF RefsAgree, FreeInv, In
    <2>2. \A w \in Users : step'[w].at \in {"open", "free"} => step'[w].dev \in 1..made.devices
      BY DEF RefsAgree, FreeInv
    <2> QED
      BY <1>2, <2>1, <2>2 DEF RefsAgree, FreeInv
  <1> QED
    BY <1>3, <1>4 DEF RefsAgree

(* The count of a set of references, seen by the one that comes or goes.   *)
LEMMA Counts ==
    ASSUME Typed, NEW d
    PROVE  /\ Cardinality(HandlesOf(d)) \in Nat /\ Cardinality(AppsOf(d)) \in Nat
           /\ Cardinality(Opening(d)) \in Nat
           /\ IsFiniteSet(HandlesOf(d)) /\ IsFiniteSet(AppsOf(d)) /\ IsFiniteSet(Opening(d))
  BY Sizes

\* Who is opening d after a step of u.
LEMMA OpeningStep ==
    ASSUME NEW u \in Users, \A v \in Users : v # u => step'[v] = step[v], NEW e
    PROVE  /\ step[u].at # "open" \/ step[u].dev # e => u \notin Opening(e)
           /\ step'[u].at # "open" \/ step'[u].dev # e => Opening(e)' = Opening(e) \ {u}
           /\ step'[u].at = "open" /\ step'[u].dev = e => Opening(e)' = Opening(e) \cup {u}
  BY DEF Opening, In

LEMMA WrapRefs ==
    ASSUME Typed, RefsAgree, NEW u \in Users, NEW ok \in BOOLEAN, WrapSysDevice(u, ok),
           NEW d, d = made.devices + 1,
           NEW new, new = NewHandle(u, d, token[u].ctx)
    PROVE  RefsAgree'
  <1>1. /\ refs' = Append(refs, IF ok THEN 1 ELSE 0)
        /\ freed' = IF ok THEN freed ELSE freed \cup {d}
        /\ handles' = IF ok THEN handles \cup {new} ELSE handles
        /\ appRefs' = appRefs /\ step' = step
    BY DEF WrapSysDevice
  <1>2. /\ made'.devices = d /\ made.devices \in Nat /\ d \notin 1..made.devices
        /\ 1..d = (1..made.devices) \cup {d} /\ freed \subseteq 1..made.devices
    <2>1. made'.devices = d /\ made.devices \in Nat /\ freed \subseteq 1..made.devices
      BY WrapTyped DEF Typed, DevTypeOK
    <2> QED
      BY <2>1
  <1>3. /\ refs'[d] = IF ok THEN 1 ELSE 0
        /\ \A e \in 1..made.devices : refs'[e] = refs[e] /\ e # d
    BY <1>1, <1>2 DEF Typed, DevTypeOK
  <1>4. new.dev = d
    BY DEF NewHandle
  <1>5. /\ \A h \in handles : h.dev \in 1..made.devices
        /\ \A a \in appRefs : a.dev \in 1..made.devices
        /\ \A v \in Users : step[v].at \in {"open", "free"} => step[v].dev \in 1..made.devices
    BY DEF Typed, DevTypeOK, RefsAgree, FreeInv
  <1>6. FreeInv'
    BY <1>1, <1>2, <1>3, <1>5 DEF RefsAgree, FreeInv, In
  <1>7. /\ HandlesOf(d) = {} /\ AppsOf(d)' = {} /\ Opening(d)' = {}
        /\ HandlesOf(d)' = IF ok THEN {new} ELSE {}
    BY <1>1, <1>2, <1>4, <1>5 DEF HandlesOf, AppsOf, Opening, In
  <1>8. \A e \in 1..made.devices :
          HandlesOf(e)' = HandlesOf(e) /\ AppsOf(e)' = AppsOf(e) /\ Opening(e)' = Opening(e)
    BY <1>1, <1>3, <1>4 DEF HandlesOf, AppsOf, Opening, In
  <1>9. RefInv'
    <2> SUFFICES ASSUME NEW e \in 1..d
                 PROVE  /\ refs'[e] = Cardinality(HandlesOf(e)') + Cardinality(AppsOf(e)')
                                        + Cardinality(Opening(e)')
                        /\ e \in freed' => refs'[e] = 0
      BY <1>2 DEF RefInv
    <2>1. CASE e = d
      <3>1. Cardinality(HandlesOf(e)') = (IF ok THEN 1 ELSE 0)
            /\ Cardinality(AppsOf(e)') = 0 /\ Cardinality(Opening(e)') = 0
        BY <1>7, <2>1, FS_EmptySet, FS_Singleton
      <3>2. refs'[e] = (IF ok THEN 1 ELSE 0) /\ (e \in freed' => ~ok)
        BY <1>1, <1>2, <1>3, <2>1
      <3> QED
        BY <3>1, <3>2
    <2>2. CASE e \in 1..made.devices
      BY <1>1, <1>3, <1>8, <2>2 DEF RefsAgree, RefInv
    <2> QED
      BY <1>2, <2>1, <2>2
  <1> QED
    BY <1>6, <1>9 DEF RefsAgree

LEMMA OpenEndRefs ==
    ASSUME Typed, RefsAgree, NEW u \in Users, NEW ok \in BOOLEAN, OpenEnd(u, ok),
           NEW d, d = step[u].dev,
           NEW new, new = NewHandle(u, d, home[d])
    PROVE  RefsAgree'
  <1>1. /\ step[u].at = "open" /\ freed' = freed /\ appRefs' = appRefs
        /\ d \in 1..made.devices /\ u \in Opening(d)
    BY DEF OpenEnd, In, RefsAgree, FreeInv, Opening
  <1>2. made'.devices = made.devices /\ new \notin handles
    BY <1>1, OpenEndTyped
  <1>3. new.dev = d
    BY DEF NewHandle
  <1>4. \A e : AppsOf(e)' = AppsOf(e)
    BY <1>1 DEF AppsOf
  <1>5. \A e \in 1..made.devices : e # d => u \notin Opening(e)
    BY DEF Opening
  <1>6. /\ Cardinality(HandlesOf(d)) \in Nat /\ Cardinality(AppsOf(d)) \in Nat
        /\ Cardinality(Opening(d)) \in Nat
        /\ IsFiniteSet(HandlesOf(d)) /\ IsFiniteSet(Opening(d))
    BY Counts
  <1>7. Cardinality(Opening(d) \ {u}) = Cardinality(Opening(d)) - 1
    BY <1>1, <1>6, DropOne
  <1>8. /\ step'[u].at \in {"out", "free"} /\ \A v \in Users : v # u => step'[v] = step[v]
    BY <1>1, LeaveStep, UnrefStep DEF OpenEnd, OpenFails, Typed
  <1>9. \A e : Opening(e)' = Opening(e) \ {u}
    BY <1>8, OpeningStep
  <1>10. Opening(d)' = Opening(d) \ {u} /\ \A e \in 1..made.devices : e # d => Opening(e)' = Opening(e)
    BY <1>5, <1>9
  <1>11. CASE ok
    <2>1. handles' = handles \cup {new} /\ refs' = refs /\ Leave(u)
      BY <1>11 DEF OpenEnd
    <2>2. /\ HandlesOf(d)' = HandlesOf(d) \cup {new} /\ new \notin HandlesOf(d)
          /\ \A e \in 1..made.devices : e # d => HandlesOf(e)' = HandlesOf(e)
      BY <1>2, <1>3, <2>1 DEF HandlesOf
    <2>3. Cardinality(HandlesOf(d)') = Cardinality(HandlesOf(d)) + 1
      BY <1>6, <2>2, AddOne
    <2>4. d \notin freed /\ refs[d] = Cardinality(HandlesOf(d)) + Cardinality(AppsOf(d))
                                        + Cardinality(Opening(d))
      <3>1. d \notin freed
        BY <1>1, Referred
      <3> QED
        BY <1>1, <3>1 DEF RefsAgree, RefInv
    <2>5. RefInv'
      <3>1. refs'[d] = Cardinality(HandlesOf(d)') + Cardinality(AppsOf(d)')
                         + Cardinality(Opening(d)')
        BY <1>4, <1>6, <1>7, <1>10, <2>1, <2>3, <2>4
      <3> QED
        BY <1>1, <1>2, <1>4, <1>10, <2>1, <2>2, <2>4, <3>1, OneCount DEF RefsAgree
    <2>6. FreeInv'
      <3>1. step'[u].at = "out"
        BY <2>1, LeaveStep DEF Typed
      <3> QED
        BY <1>1, <1>2, <1>8, <2>1, <3>1 DEF RefsAgree, FreeInv, In
    <2> QED
      BY <2>5, <2>6 DEF RefsAgree
  <1>12. CASE ~ok
    <2>1. Unref(u, d) /\ handles' = handles
      BY <1>12 DEF OpenEnd, OpenFails
    <2>2. \A e : HandlesOf(e)' = HandlesOf(e)
      BY <2>1 DEF HandlesOf
    <2>3. Cardinality(HandlesOf(d)') + Cardinality(AppsOf(d)') + Cardinality(Opening(d)')
          = (Cardinality(HandlesOf(d)) + Cardinality(AppsOf(d)) + Cardinality(Opening(d))) - 1
      BY <1>4, <1>6, <1>7, <1>10, <2>2
    <2> QED
      BY <1>1, <1>2, <1>4, <1>10, <2>1, <2>2, <2>3, UnrefAgrees
  <1> QED
    BY <1>11, <1>12

LEMMA RefDeviceRefs ==
    ASSUME Typed, RefsAgree, NEW u \in Users, NEW h \in handles, RefDevice(u, h)
    PROVE  RefsAgree'
  <1>1. PICK d : d = h.dev
    OBVIOUS
  <1>2. PICK a : a = [user |-> u, dev |-> d]
    OBVIOUS
  <1>3. /\ step[u].at = "out" /\ step' = step /\ handles' = handles /\ freed' = freed
        /\ a \notin appRefs /\ appRefs' = appRefs \cup {a} /\ made' = made
        /\ refs' = [refs EXCEPT ![d] = @ + 1] /\ d \in 1..made.devices /\ a.dev = d
    BY <1>1, <1>2 DEF RefDevice, Free, In, Typed, DevTypeOK
  <1>4. /\ \A e : HandlesOf(e)' = HandlesOf(e) /\ Opening(e)' = Opening(e)
        /\ AppsOf(d)' = AppsOf(d) \cup {a} /\ a \notin AppsOf(d) /\ h \in HandlesOf(d)
        /\ \A e : e # d => AppsOf(e)' = AppsOf(e)
    BY <1>1, <1>3 DEF HandlesOf, Opening, In, AppsOf
  <1>5. Cardinality(AppsOf(d)') = Cardinality(AppsOf(d)) + 1
    BY <1>4, Counts, AddOne
  <1>6. Cardinality(HandlesOf(d)') + Cardinality(AppsOf(d)') + Cardinality(Opening(d)')
        = Cardinality(HandlesOf(d)) + Cardinality(AppsOf(d)) + Cardinality(Opening(d)) + 1
    BY <1>4, <1>5, Counts
  <1> QED
    BY <1>3, <1>4, <1>6, RefAgrees

LEMMA OpenBeginRefs ==
    ASSUME Typed, RefsAgree, NEW u \in Users, NEW d \in 1..made.devices, OpenBegin(u, d)
    PROVE  RefsAgree'
  <1>1. /\ step[u].at = "out" /\ handles' = handles /\ freed' = freed /\ appRefs' = appRefs
        /\ [user |-> u, dev |-> d] \in AppsOf(d) /\ made' = made
        /\ refs' = [refs EXCEPT ![d] = @ + 1] /\ Enter(u, "open", None, d)
    BY DEF OpenBegin, Free, In, AppsOf
  <1>2. /\ step'[u].at = "open" /\ step'[u].dev = d
        /\ \A v \in Users : v # u => step'[v] = step[v]
    BY <1>1, EnterStep DEF Typed
  <1>3. /\ \A e : HandlesOf(e)' = HandlesOf(e) /\ AppsOf(e)' = AppsOf(e)
        /\ \A e : u \notin Opening(e)
        /\ \A e : e # d => Opening(e)' = Opening(e) \ {u}
        /\ Opening(d)' = Opening(d) \cup {u}
    BY <1>1, <1>2 DEF HandlesOf, AppsOf, Opening, In
  <1>4. Cardinality(Opening(d)') = Cardinality(Opening(d)) + 1
    BY <1>3, Counts, AddOne
  <1>5. Cardinality(HandlesOf(d)') + Cardinality(AppsOf(d)') + Cardinality(Opening(d)')
        = Cardinality(HandlesOf(d)) + Cardinality(AppsOf(d)) + Cardinality(Opening(d)) + 1
    BY <1>3, <1>4, Counts
  <1>6. \A e : e # d => Opening(e)' = Opening(e)
    BY <1>3
  <1> QED
    BY <1>1, <1>2, <1>3, <1>5, <1>6, RefAgrees

LEMMA UnrefDeviceRefs ==
    ASSUME Typed, RefsAgree, NEW u \in Users, NEW d \in 1..made.devices, UnrefDevice(u, d)
    PROVE  RefsAgree'
  <1>1. PICK a : a = [user |-> u, dev |-> d]
    OBVIOUS
  <1>2. /\ step[u].at = "out" /\ handles' = handles /\ freed' = freed
        /\ a \in appRefs /\ appRefs' = appRefs \ {a} /\ made' = made /\ Unref(u, d) /\ a.dev = d
    BY <1>1 DEF UnrefDevice, In
  <1>3. /\ step'[u].at \in {"out", "free"} /\ \A v \in Users : v # u => step'[v] = step[v]
    BY <1>2, UnrefStep DEF Typed
  <1>4. \A e : HandlesOf(e)' = HandlesOf(e) /\ Opening(e)' = Opening(e)
    BY <1>2, <1>3 DEF HandlesOf, Opening, In
  <1>5. /\ AppsOf(d)' = AppsOf(d) \ {a} /\ a \in AppsOf(d)
        /\ \A e : e # d => AppsOf(e)' = AppsOf(e)
    BY <1>2 DEF AppsOf
  <1>6. Cardinality(AppsOf(d)') = Cardinality(AppsOf(d)) - 1
    BY <1>5, Counts, DropOne
  <1>7. Cardinality(HandlesOf(d)') + Cardinality(AppsOf(d)') + Cardinality(Opening(d)')
        = (Cardinality(HandlesOf(d)) + Cardinality(AppsOf(d)) + Cardinality(Opening(d))) - 1
    BY <1>4, <1>6, Counts
  <1> QED
    BY <1>2, <1>4, <1>5, <1>7, UnrefAgrees

LEMMA CloseRefs ==
    ASSUME Typed, RefsAgree, NEW u \in Users, NEW h \in handles, CloseHandle(u, h)
    PROVE  RefsAgree'
  <1>1. PICK d : d = h.dev
    OBVIOUS
  <1>2. /\ step[u].at = "out" /\ handles' = handles \ {h} /\ freed' = freed
        /\ appRefs' = appRefs /\ made' = made /\ Unref(u, d) /\ d \in 1..made.devices
    BY <1>1 DEF CloseHandle, In, Typed, DevTypeOK
  <1>3. /\ step'[u].at \in {"out", "free"} /\ \A v \in Users : v # u => step'[v] = step[v]
    BY <1>2, UnrefStep DEF Typed
  <1>4. \A e : AppsOf(e)' = AppsOf(e) /\ Opening(e)' = Opening(e)
    BY <1>2, <1>3 DEF AppsOf, Opening, In
  <1>5. /\ HandlesOf(d)' = HandlesOf(d) \ {h} /\ h \in HandlesOf(d)
        /\ \A e : e # d => HandlesOf(e)' = HandlesOf(e)
    BY <1>1, <1>2 DEF HandlesOf
  <1>6. Cardinality(HandlesOf(d)') = Cardinality(HandlesOf(d)) - 1
    BY <1>5, Counts, DropOne
  <1>7. Cardinality(HandlesOf(d)') + Cardinality(AppsOf(d)') + Cardinality(Opening(d)')
        = (Cardinality(HandlesOf(d)) + Cardinality(AppsOf(d)) + Cardinality(Opening(d))) - 1
    BY <1>4, <1>6, Counts
  <1> QED
    BY <1>2, <1>4, <1>5, <1>7, UnrefAgrees

LEMMA HandOverRefs ==
    ASSUME Typed, RefsAgree, NEW u \in Users, NEW v \in Users, NEW d \in 1..made.devices,
           HandOver(u, v, d)
    PROVE  RefsAgree'
  <1>1. PICK a, b : a = [user |-> u, dev |-> d] /\ b = [user |-> v, dev |-> d]
    OBVIOUS
  <1>2. /\ a \in appRefs /\ b \notin appRefs /\ appRefs' = (appRefs \ {a}) \cup {b}
        /\ a.dev = d /\ b.dev = d
        /\ UNCHANGED <<made, refs, freed, handles, step>>
    BY <1>1 DEF HandOver
  <1>3. /\ AppsOf(d)' = (AppsOf(d) \ {a}) \cup {b} /\ a \in AppsOf(d) /\ b \notin AppsOf(d) \ {a}
        /\ \A e : e # d => AppsOf(e)' = AppsOf(e)
    BY <1>2 DEF AppsOf
  <1>4. IsFiniteSet(AppsOf(d)) /\ Cardinality(AppsOf(d)) \in Nat
    BY Counts
  <1>5. Cardinality(AppsOf(d)') = Cardinality(AppsOf(d))
    <2>1. /\ IsFiniteSet(AppsOf(d) \ {a})
          /\ Cardinality(AppsOf(d) \ {a}) = Cardinality(AppsOf(d)) - 1
      BY <1>3, <1>4, DropOne
    <2>2. Cardinality((AppsOf(d) \ {a}) \cup {b}) = Cardinality(AppsOf(d) \ {a}) + 1
      BY <1>3, <2>1, AddOne
    <2> QED
      BY <1>3, <1>4, <2>1, <2>2
  <1>6. \A e : HandlesOf(e)' = HandlesOf(e) /\ Opening(e)' = Opening(e)
    BY <1>2 DEF HandlesOf, Opening, In
  <1>7. RefInv'
    <2> SUFFICES ASSUME NEW e \in 1..made.devices
                 PROVE  /\ refs[e] = Cardinality(HandlesOf(e)') + Cardinality(AppsOf(e)')
                                       + Cardinality(Opening(e)')
                        /\ e \in freed => refs[e] = 0
      BY <1>2 DEF RefInv
    <2>1. Cardinality(AppsOf(e)') = Cardinality(AppsOf(e))
      BY <1>3, <1>5
    <2> QED
      BY <1>6, <2>1 DEF RefsAgree, RefInv
  <1>8. FreeInv'
    BY <1>2 DEF RefsAgree, FreeInv, In
  <1> QED
    BY <1>7, <1>8 DEF RefsAgree

LEMMA FreeRefs ==
    ASSUME Typed, RefsAgree, NEW u \in Users, FreeDevice(u)
    PROVE  RefsAgree'
  <1>1. PICK d : d = step[u].dev
    OBVIOUS
  <1>2. /\ In(u, "free") /\ freed' = freed \cup {d} /\ Leave(u)
        /\ UNCHANGED <<made, refs, handles, appRefs>>
    BY <1>1 DEF FreeDevice
  <1>3. /\ step'[u].at = "out" /\ \A v \in Users : v # u => step'[v] = step[v]
    BY <1>2, LeaveStep DEF Typed
  <1>4. refs[d] = 0 /\ \A v \in Users : v # u /\ In(v, "free") => step[v].dev # d
    BY <1>1, <1>2 DEF RefsAgree, FreeInv
  <1>5. \A e : HandlesOf(e)' = HandlesOf(e) /\ AppsOf(e)' = AppsOf(e) /\ Opening(e)' = Opening(e)
    BY <1>2, <1>3 DEF HandlesOf, AppsOf, Opening, In
  <1>6. RefInv'
    BY <1>2, <1>4, <1>5 DEF RefsAgree, RefInv
  <1>7. FreeInv'
    <2>1. \A v \in Users : v # u \/ step'[v].at = "out"
      BY <1>3
    <2> QED
      BY <1>2, <1>3, <1>4, <2>1 DEF RefsAgree, FreeInv, In
  <1> QED
    BY <1>6, <1>7 DEF RefsAgree

-----------------------------------------------------------------------------
(* Every step. *)

LEMMA InitKeeps ==
    ASSUME DevInv, NEW u \in Users, NEW b \in BOOLEAN,
           InitBegin(u, b) \/ InitBackend(u, b) \/ InitIo(u, b)
    PROVE  DevInv'
  <1>1. Typed' /\ made'.devices = made.devices
    BY InitTyped DEF DevInv
  <1>2. CtxInv' /\ ContextCountsExact'
    BY InitStep
  <1>3. /\ UNCHANGED <<refs, freed, handles, appRefs>>
        /\ step[u].at \in {"out", "init_named", "init_default"}
    BY DEF InitBegin, InitBackend, InitIo, objVars, In
  <1>4. /\ step'[u].at \in {"out", "init_named", "init_default"}
        /\ \A v \in Users : v # u => step'[v] = step[v]
    <2>1. \/ UNCHANGED step \/ Leave(u)
          \/ \E c : Enter(u, "init_named", c, None) \/ Enter(u, "init_default", c, None)
      BY DEF InitBegin, InitBackend, InitIo, Undo
    <2> QED
      BY <1>3, <2>1, LeaveStep, EnterStep DEF DevInv, Typed
  <1>5. RefsAgree'
    BY <1>1, <1>3, <1>4, SameRefs DEF DevInv, RefsAgree
  <1> QED
    BY <1>1, <1>2, <1>5 DEF DevInv, RefsAgree

LEMMA ExitKeeps ==
    ASSUME DevInv, NEW u \in Users, ExitBegin(u) \/ ExitLock(u) \/ ExitTeardown(u)
    PROVE  DevInv'
  <1>1. Typed' /\ made'.devices = made.devices
    BY ExitTyped DEF DevInv
  <1>2. CtxInv' /\ ContextCountsExact'
    BY ExitBeginStep, ExitLockStep, ExitTeardownStep
  <1>3. /\ UNCHANGED <<refs, freed, handles, appRefs>>
        /\ step[u].at \in {"out", "exit", "teardown", "teardown_default"}
    BY DEF ExitBegin, ExitLock, ExitTeardown, Tearing, objVars, In
  <1>4. /\ step'[u].at \in {"out", "exit", "teardown", "teardown_default"}
        /\ \A v \in Users : v # u => step'[v] = step[v]
    <2>1. \/ Leave(u)
          \/ \E c : \/ Enter(u, "exit", c, None) \/ Enter(u, "teardown", c, None)
                    \/ Enter(u, "teardown_default", c, None)
      BY DEF ExitBegin, ExitLock, ExitTeardown
    <2> QED
      BY <2>1, LeaveStep, EnterStep DEF DevInv, Typed
  <1>5. RefsAgree'
    BY <1>1, <1>3, <1>4, SameRefs DEF DevInv, RefsAgree
  <1> QED
    BY <1>1, <1>2, <1>5 DEF DevInv, RefsAgree

LEMMA QuietRefs ==
    ASSUME Typed, RefsAgree, NEW u \in Users, QuietCall(u)
    PROVE  RefsAgree'
  <1>1. CASE RegisterCallback(u) \/ DropCallbacks(u) \/ \E k \in callbacks : DeregisterCallback(u, k)
    <2>1. UNCHANGED <<refs, freed, handles, appRefs, step>>
      BY <1>1 DEF RegisterCallback, DropCallbacks, DeregisterCallback
    <2>2. made'.devices = made.devices
      BY QuietTyped DEF RefsAgree, FreeInv, In
    <2> QED
      BY <2>1, <2>2, SameRefs
  <1> QED
    BY <1>1, RefDeviceRefs, OpenBeginRefs, UnrefDeviceRefs, CloseRefs, HandOverRefs, FreeRefs
    DEF QuietCall

LEMMA CallKeeps ==
    ASSUME DevInv, NEW u \in Users,
           \/ QuietCall(u)
           \/ \E b \in BOOLEAN : WrapSysDevice(u, b) \/ OpenEnd(u, b)
    PROVE  DevInv'
  <1>1. CASE QuietCall(u)
    <2>1. Typed'
      BY <1>1, QuietTyped DEF DevInv, FreeInv, In
    <2>2. CtxInv' /\ ContextCountsExact'
      BY <1>1, QuietCtx DEF DevInv
    <2>3. RefsAgree'
      BY <1>1, QuietRefs DEF DevInv, RefsAgree
    <2> QED
      BY <2>1, <2>2, <2>3 DEF DevInv, RefsAgree
  <1>2. CASE \E b \in BOOLEAN : WrapSysDevice(u, b)
    <2>1. Typed'
      BY <1>2, WrapTyped DEF DevInv
    <2>2. CtxInv' /\ ContextCountsExact'
      BY <1>2, WrapCtx DEF DevInv
    <2>3. RefsAgree'
      BY <1>2, WrapRefs DEF DevInv, RefsAgree
    <2> QED
      BY <2>1, <2>2, <2>3 DEF DevInv, RefsAgree
  <1>3. CASE \E b \in BOOLEAN : OpenEnd(u, b)
    <2>1. Typed'
      BY <1>3, OpenEndTyped DEF DevInv, FreeInv, OpenEnd, In
    <2>2. CtxInv' /\ ContextCountsExact'
      BY <1>3, OpenEndCtx DEF DevInv
    <2>3. RefsAgree'
      BY <1>3, OpenEndRefs DEF DevInv, RefsAgree
    <2> QED
      BY <2>1, <2>2, <2>3 DEF DevInv, RefsAgree
  <1> QED
    BY <1>1, <1>2, <1>3

LEMMA StutterKeeps ==
    ASSUME DevInv, UNCHANGED devVars
    PROVE  DevInv'
  <1>1. /\ contexts' = contexts /\ ready' = ready /\ default' = default /\ defRefs' = defRefs
        /\ defLock' = defLock /\ initCount' = initCount /\ made' = made /\ token' = token
        /\ refs' = refs /\ home' = home /\ freed' = freed /\ handles' = handles
        /\ appRefs' = appRefs /\ callbacks' = callbacks /\ step' = step
    BY DEF devVars
  <1>2. Typed'
    BY <1>1 DEF DevInv, Typed, DevTypeOK, Fin
  <1>3. CtxInv'
    BY <1>1 DEF DevInv, CtxInv, TokenInv, DevCallInv, ObjectInv, DefaultInv, Holds, Building,
       Starting, Tearing, Alone, In
  <1>4. ContextCountsExact'
    <2>1. DefaultUsers' = DefaultUsers
      BY <1>1 DEF DefaultUsers
    <2> QED
      BY <1>1, <2>1 DEF DevInv, ContextCountsExact
  <1>5. FreeInv'
    BY <1>1 DEF DevInv, FreeInv, In
  <1>6. RefInv'
    <2>1. \A d : HandlesOf(d)' = HandlesOf(d) /\ AppsOf(d)' = AppsOf(d) /\ Opening(d)' = Opening(d)
      BY <1>1 DEF HandlesOf, AppsOf, Opening, In
    <2> QED
      BY <1>1, <2>1 DEF DevInv, RefInv
  <1> QED
    BY <1>2, <1>3, <1>4, <1>5, <1>6 DEF DevInv

(* Every step of the library, whoever makes it and whichever call fails,   *)
(* keeps the invariant: one context to its maker, the default one to its   *)
(* sharers, a context in the making to nobody else.                        *)
THEOREM DevInductive ==
    DevInv /\ [DevNext]_devVars => DevInv'
  <1> SUFFICES ASSUME DevInv, [DevNext]_devVars PROVE DevInv'
    OBVIOUS
  <1>1. CASE UNCHANGED devVars
    BY <1>1, StutterKeeps
  <1>2. CASE DevNext
    <2>1. PICK u \in Users :
            \/ \E b \in BOOLEAN : InitBegin(u, b) \/ InitBackend(u, b) \/ InitIo(u, b)
            \/ ExitBegin(u) \/ ExitLock(u) \/ ExitTeardown(u)
            \/ \E b \in BOOLEAN : WrapSysDevice(u, b) \/ OpenEnd(u, b)
            \/ QuietCall(u)
      BY <1>2 DEF DevNext, QuietCall
    <2> QED
      BY <2>1, InitKeeps, ExitKeeps, CallKeeps
  <1> QED
    BY <1>1, <1>2

THEOREM InvariantAlways == DevSpec => []DevInv
  <1>1. DevInit => DevInv
    BY Start
  <1> QED
    BY <1>1, DevInductive, PTL DEF DevSpec

(* The state of contexts, devices and handles stays well formed: core.c's  *)
(* counters, lists and locks hold what their declarations say.             *)
THEOREM DevTypeCorrect == DevSpec => []DevTypeOK
  <1>1. DevInv => DevTypeOK
    BY DEF DevInv, Typed
  <1> QED
    BY <1>1, InvariantAlways, PTL

(* No thread loses its context to another one, however many share the      *)
(* default context and in whatever order libusb_init() fails and           *)
(* libusb_exit() overlaps with it.                                         *)
THEOREM ContextAliveAlways == DevSpec => []ContextAlive
  <1>1. DevInv => ContextAlive
    <2> SUFFICES ASSUME DevInv PROVE ContextAlive
      OBVIOUS
    <2>1. \A h \in handles : h.user \in Users /\ Holds(h.user) /\ token[h.user].ctx = h.ctx
      BY DEF DevInv, Typed, DevTypeOK, CtxInv, ObjectInv
    <2> QED
      BY <2>1 DEF DevInv, CtxInv, TokenInv, ObjectInv, Holds, ContextAlive
  <1> QED
    BY <1>1, InvariantAlways, PTL

(* default_context_refcnt, init_count and every dev->refcnt are exact, and *)
(* a device is freed by one thread at most, once.                          *)
THEOREM CountersExactAlways == DevSpec => []CountersExact
  <1>1. DevInv => CountersExact
    <2> SUFFICES ASSUME DevInv, NEW d \in 1..made.devices
                 PROVE  /\ refs[d] = Cardinality({h \in handles : h.dev = d})
                              + Cardinality({a \in appRefs : a.dev = d}) + Cardinality(Opening(d))
                        /\ d \in freed => refs[d] = 0
                        /\ Cardinality({u \in Users : In(u, "free") /\ step[u].dev = d}) <=
                             IF refs[d] = 0 /\ d \notin freed THEN 1 ELSE 0
      BY DEF DevInv, CountersExact, DeviceRefsExact
    <2> DEFINE F == {u \in Users : In(u, "free") /\ step[u].dev = d}
    <2>1. CASE F = {}
      <3>1. Cardinality(F) = 0
        BY <2>1, FS_EmptySet
      <3> QED
        BY <3>1 DEF DevInv, RefInv, HandlesOf, AppsOf
    <2>2. CASE F # {}
      <3>1. PICK u \in Users : In(u, "free") /\ step[u].dev = d
        BY <2>2
      <3>2. F = {u}
        BY <3>1 DEF DevInv, FreeInv
      <3>3. Cardinality(F) = 1
        BY <3>2, FS_Singleton
      <3>4. refs[d] = 0 /\ d \notin freed
        BY <3>1 DEF DevInv, FreeInv
      <3> QED
        BY <3>3, <3>4 DEF DevInv, RefInv, HandlesOf, AppsOf
    <2> QED
      BY <2>1, <2>2
  <1> QED
    BY <1>1, InvariantAlways, PTL

=============================================================================
