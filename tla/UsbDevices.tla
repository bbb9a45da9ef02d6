----------------------------- MODULE UsbDevices -----------------------------
(***************************************************************************)
(* The life of libusb's contexts, devices and handles: libusb_init() and   *)
(* libusb_exit() with the default context they may share, devices wrapped  *)
(* from a file descriptor and counted by references, handles opened and    *)
(* closed, hotplug callbacks registered and dropped (libusb-andro/libusb/  *)
(* core.c, hotplug.c, io.c, os/linux_usbfs.c).                             *)
(*                                                                         *)
(* On Android nothing is enumerated and nothing announces an unplug, so a  *)
(* device exists because libusb_wrap_sys_device() made it, is in no list,  *)
(* and stays "attached".  Threads use the library as its documentation     *)
(* asks: a thread exits what it initialised, after closing its handles,    *)
(* and opens a device only while it holds a reference to it.               *)
(***************************************************************************)
EXTENDS Integers, FiniteSets, Sequences

CONSTANTS
  Users,       \* threads of the application
  MaxContexts, \* bounds of the runs: contexts made,
  MaxDevices,  \* devices wrapped,
  MaxHandles,  \* handles opened,
  MaxCallbacks \* and hotplug callbacks registered

None == 0

ASSUME DeviceConstants == None \notin Users /\ IsFiniteSet(Users)

VARIABLES
  contexts,    \* contexts that were allocated and not freed yet
  ready,       \* those whose backend is initialised
  default,     \* usbi_default_context, or None
  defRefs,     \* default_context_refcnt
  defLock,     \* holder of default_context_lock, or None
  initCount,   \* init_count of the usbfs backend
  made,        \* [contexts, devices, handles, callbacks]: how many were made
  token,       \* per user: the initialisation it has not undone yet
  refs,        \* per device made: dev->refcnt
  home,        \* per device made: the context it was made in, DEVICE_CTX(dev)
  freed,       \* devices that were freed
  handles,     \* open handles: [id, dev, ctx, user]
  appRefs,     \* references a user took: set of [user, dev]
  callbacks,   \* hotplug callbacks: [id, ctx, drop]
  step         \* per user: where it is inside a call

devVars == <<contexts, ready, default, defRefs, defLock, initCount, made, token,
             refs, home, freed, handles, appRefs, callbacks, step>>

ctxVars == <<contexts, ready, default, defRefs, defLock, initCount, token>>
objVars == <<refs, home, freed, handles, appRefs, callbacks>>

Out == [at |-> "out", ctx |-> None, dev |-> None]
NoToken == [ctx |-> None, named |-> FALSE]

\* Where a thread may be inside a call.
Places == {"out", "init_named", "init_default", "exit", "teardown", "teardown_default",
           "open", "free"}

DevTypeOK ==
  /\ made \in [contexts : Nat, devices : Nat, handles : Nat, callbacks : Nat]
  /\ contexts \subseteq 1..made.contexts /\ ready \subseteq contexts
  /\ default \in contexts \cup {None}
  /\ defLock \in Users \cup {None}
  /\ defRefs \in Int /\ initCount \in Int
  /\ token \in [Users -> [ctx : Nat, named : BOOLEAN]]
  /\ refs \in Seq(Int) /\ Len(refs) = made.devices
  /\ home \in Seq(Nat) /\ Len(home) = made.devices
  /\ freed \subseteq 1..made.devices
  /\ handles \subseteq [id : 1..made.handles, dev : 1..made.devices, ctx : Nat, user : Users]
  /\ appRefs \subseteq [user : Users, dev : 1..made.devices]
  /\ callbacks \subseteq [id : 1..made.callbacks, ctx : Nat, drop : BOOLEAN]
  /\ step \in [Users -> [at : Places, ctx : Nat, dev : 0..made.devices]]

DevInit ==
  /\ contexts = {} /\ ready = {} /\ default = None /\ defRefs = 0
  /\ defLock = None /\ initCount = 0
  /\ made = [contexts |-> 0, devices |-> 0, handles |-> 0, callbacks |-> 0]
  /\ token = [u \in Users |-> NoToken]
  /\ refs = <<>> /\ home = <<>> /\ freed = {} /\ handles = {} /\ appRefs = {} /\ callbacks = {}
  /\ step = [u \in Users |-> Out]

Enter(u, at, ctx, dev) == step' = [step EXCEPT ![u] = [at |-> at, ctx |-> ctx, dev |-> dev]]
Leave(u) == step' = [step EXCEPT ![u] = Out]
In(u, at) == step[u].at = at

----------------------------------------------------------------------------
(* libusb_init(): all of it with default_context_lock held.                *)

\* libusb_init(NULL) shares the default context when there is one; a context
\* made while there is none becomes the default one, named or not.
InitBegin(u, named) ==
  /\ In(u, "out") /\ token[u] = NoToken
  /\ defLock = None
  /\ IF ~named /\ default # None
     THEN /\ defRefs' = defRefs + 1
          /\ token' = [token EXCEPT ![u] = [ctx |-> default, named |-> FALSE]]
          /\ UNCHANGED <<contexts, default, defLock, made, step>>
     ELSE LET c == made.contexts + 1 IN
          /\ made.contexts < MaxContexts
          /\ made' = [made EXCEPT !.contexts = c]
          /\ contexts' = contexts \cup {c}
          /\ default' = IF default = None THEN c ELSE default
          /\ defRefs' = IF default = None THEN defRefs + 1 ELSE defRefs
          /\ defLock' = u
          /\ Enter(u, IF named THEN "init_named" ELSE "init_default", c, None)
          /\ UNCHANGED token
  /\ UNCHANGED <<ready, initCount, objVars>>

\* Mutant: the count of the default context stays.
UndoUncounted(u, c) ==
  /\ default' = IF default = c THEN None ELSE default
  /\ contexts' = contexts \ {c}
  /\ defLock' = None
  /\ Leave(u)
  /\ UNCHANGED <<defRefs, token>>

\* err_free_ctx.
Undo(u, c) ==
  /\ default' = IF default = c THEN None ELSE default
  /\ defRefs' = IF default = c THEN defRefs - 1 ELSE defRefs
  /\ contexts' = contexts \ {c}
  /\ defLock' = None
  /\ Leave(u)
  /\ UNCHANGED token

\* op_init(), which fails when the kernel version cannot be read ...
InitBackend(u, ok) ==
  LET c == step[u].ctx
  IN /\ step[u].at \in {"init_named", "init_default"} /\ c \notin ready
     /\ IF ok
        THEN /\ ready' = ready \cup {c}
             /\ initCount' = initCount + 1
             /\ UNCHANGED <<contexts, default, defRefs, defLock, token, step>>
        ELSE Undo(u, c) /\ UNCHANGED <<ready, initCount>>
     /\ UNCHANGED <<made, objVars>>

\* ... then usbi_io_init(), whose failure undoes op_init() by op_exit().
InitIo(u, ok) ==
  LET c == step[u].ctx
  IN /\ step[u].at \in {"init_named", "init_default"} /\ c \in ready
     /\ IF ok
        THEN /\ token' = [token EXCEPT ![u] = [ctx |-> c, named |-> In(u, "init_named")]]
             /\ defLock' = None
             /\ Leave(u)
             /\ UNCHANGED <<contexts, ready, default, defRefs, initCount>>
        ELSE /\ Undo(u, c)
             /\ ready' = ready \ {c}
             /\ initCount' = initCount - 1
     /\ UNCHANGED <<made, objVars>>

----------------------------------------------------------------------------
(* libusb_exit().                                                          *)

\* USBI_GET_CONTEXT reads the default context before the lock is taken.
ExitBegin(u) ==
  /\ In(u, "out") /\ token[u] # NoToken
  /\ \A h \in handles : h.user # u
  /\ Enter(u, "exit", IF token[u].named THEN token[u].ctx ELSE default, None)
  /\ UNCHANGED <<ctxVars, made, objVars>>

\* Mutant: any user tears the default context down.
AnyUser == TRUE

LastUser == defRefs = 1

\* The last user of the default context keeps the lock until it is gone.
ExitLock(u) ==
  LET c == step[u].ctx
  IN /\ In(u, "exit")
     /\ defLock = None
     /\ token' = [token EXCEPT ![u] = NoToken]
     /\ IF c = default
        THEN /\ defRefs' = defRefs - 1
             /\ defLock' = IF LastUser THEN u ELSE None
             /\ IF LastUser THEN Enter(u, "teardown_default", c, None) ELSE Leave(u)
        ELSE /\ Enter(u, "teardown", c, None)
             /\ UNCHANGED <<defRefs, defLock>>
     /\ UNCHANGED <<contexts, ready, default, initCount, made, objVars>>

Tearing(u) == step[u].at \in {"teardown", "teardown_default"}

\* usbi_hotplug_deregister(ctx, 1), usbi_io_exit(), op_exit(), free().
ExitTeardown(u) ==
  LET c == step[u].ctx
  IN /\ Tearing(u)
     /\ callbacks' = {k \in callbacks : k.ctx # c}
     /\ ready' = ready \ {c}
     /\ initCount' = initCount - 1
     /\ contexts' = contexts \ {c}
     /\ IF In(u, "teardown_default") THEN default' = None /\ defLock' = None
        ELSE UNCHANGED <<default, defLock>>
     /\ Leave(u)
     /\ UNCHANGED <<defRefs, token, made, refs, home, freed, handles, appRefs>>

----------------------------------------------------------------------------
(* Devices and handles.                                                    *)

Free(u) == In(u, "out") /\ token[u] # NoToken

NewHandle(u, d, c) == [id |-> made.handles + 1, dev |-> d, ctx |-> c, user |-> u]

\* libusb_wrap_sys_device(): the device and the handle come to be together;
\* a device whose descriptors or whose poll descriptor fail is dropped again.
WrapSysDevice(u, ok) ==
  LET d == made.devices + 1
  IN /\ Free(u)
     /\ d <= MaxDevices /\ made.handles < MaxHandles
     /\ refs' = Append(refs, IF ok THEN 1 ELSE 0)
     /\ home' = Append(home, token[u].ctx)
     /\ freed' = IF ok THEN freed ELSE freed \cup {d}
     /\ handles' = IF ok THEN handles \cup {NewHandle(u, d, token[u].ctx)} ELSE handles
     /\ made' = [made EXCEPT !.devices = d, !.handles = IF ok THEN @ + 1 ELSE @]
     /\ UNCHANGED <<ctxVars, appRefs, callbacks, step>>

\* libusb_ref_device(libusb_get_device(handle)): a user refers to the device
\* of a handle that is its own.
RefDevice(u, h) ==
  /\ Free(u)
  /\ h.user = u /\ [user |-> u, dev |-> h.dev] \notin appRefs
  /\ refs' = [refs EXCEPT ![h.dev] = @ + 1]
  /\ appRefs' = appRefs \cup {[user |-> u, dev |-> h.dev]}
  /\ UNCHANGED <<ctxVars, made, home, freed, handles, callbacks, step>>

\* A user hands its reference on: the other thread refers to it from then on.
HandOver(u, v, d) ==
  /\ In(u, "out") /\ In(v, "out") /\ u # v
  /\ [user |-> u, dev |-> d] \in appRefs /\ [user |-> v, dev |-> d] \notin appRefs
  /\ appRefs' = (appRefs \ {[user |-> u, dev |-> d]}) \cup {[user |-> v, dev |-> d]}
  /\ UNCHANGED <<ctxVars, made, refs, home, freed, handles, callbacks, step>>

\* libusb_unref_device(): the count drops under dev->lock, the last one frees.
Unref(u, d) ==
  /\ refs' = [refs EXCEPT ![d] = @ - 1]
  /\ IF refs[d] = 1 THEN Enter(u, "free", None, d) ELSE Leave(u)

UnrefDevice(u, d) ==
  /\ In(u, "out")
  /\ [user |-> u, dev |-> d] \in appRefs
  /\ appRefs' = appRefs \ {[user |-> u, dev |-> d]}
  /\ Unref(u, d)
  /\ UNCHANGED <<ctxVars, made, home, freed, handles, callbacks>>

FreeDevice(u) ==
  /\ In(u, "free")
  /\ freed' = freed \cup {step[u].dev}
  /\ Leave(u)
  /\ UNCHANGED <<ctxVars, made, refs, home, handles, appRefs, callbacks>>

\* libusb_open(): the reference first, then the backend, which fails when the
\* node is gone or not accessible; then the reference is dropped again.
OpenBegin(u, d) ==
  /\ Free(u)
  /\ made.handles < MaxHandles
  /\ [user |-> u, dev |-> d] \in appRefs /\ home[d] = token[u].ctx
  /\ refs' = [refs EXCEPT ![d] = @ + 1]
  /\ Enter(u, "open", None, d)
  /\ UNCHANGED <<ctxVars, made, home, freed, handles, appRefs, callbacks>>

OpenFails(u, d) == Unref(u, d)

OpenEnd(u, ok) ==
  LET d == step[u].dev
  IN /\ In(u, "open")
     /\ IF ok /\ made.handles < MaxHandles
        THEN /\ handles' = handles \cup {NewHandle(u, d, home[d])}
             /\ made' = [made EXCEPT !.handles = @ + 1]
             /\ Leave(u)
             /\ UNCHANGED refs
        ELSE ~ok /\ OpenFails(u, d) /\ UNCHANGED <<handles, made>>
     /\ UNCHANGED <<ctxVars, home, freed, appRefs, callbacks>>

\* libusb_close(), do_close(): out of open_devs, backend closed, device
\* unreferenced.  (How it takes the events lock is EventLock's matter.)
CloseHandle(u, h) ==
  /\ In(u, "out") /\ h.user = u
  /\ handles' = handles \ {h}
  /\ Unref(u, h.dev)
  /\ UNCHANGED <<ctxVars, made, home, freed, appRefs, callbacks>>

----------------------------------------------------------------------------
(* Hotplug callbacks: registered, marked, and freed by whoever handles     *)
(* events next or by the exit of the context.                              *)

RegisterCallback(u) ==
  /\ Free(u)
  /\ made.callbacks < MaxCallbacks
  /\ made' = [made EXCEPT !.callbacks = @ + 1]
  /\ callbacks' = callbacks \cup
       {[id |-> made.callbacks + 1, ctx |-> token[u].ctx, drop |-> FALSE]}
  /\ UNCHANGED <<ctxVars, refs, home, freed, handles, appRefs, step>>

\* libusb_hotplug_deregister_callback(): marked, not freed: it may be running.
DeregisterCallback(u, k) ==
  /\ Free(u) /\ token[u].ctx = k.ctx
  /\ callbacks' = (callbacks \ {k}) \cup {[k EXCEPT !.drop = TRUE]}
  /\ UNCHANGED <<ctxVars, made, refs, home, freed, handles, appRefs, step>>

\* handle_events() sees USBI_EVENT_HOTPLUG_CB_DEREGISTERED:
\* usbi_hotplug_deregister(ctx, 0).
DropCallbacks(u) ==
  /\ Free(u)
  /\ \E k \in callbacks : k.ctx = token[u].ctx /\ k.drop
  /\ callbacks' = {k \in callbacks : ~(k.ctx = token[u].ctx /\ k.drop)}
  /\ UNCHANGED <<ctxVars, made, refs, home, freed, handles, appRefs, step>>

DevNext == \E u \in Users :
  \/ \E b \in BOOLEAN : InitBegin(u, b) \/ InitBackend(u, b) \/ InitIo(u, b)
  \/ ExitBegin(u) \/ ExitLock(u) \/ ExitTeardown(u)
  \/ \E b \in BOOLEAN : WrapSysDevice(u, b) \/ OpenEnd(u, b)
  \/ \E h \in handles : RefDevice(u, h) \/ CloseHandle(u, h)
  \/ \E d \in 1..made.devices :
       \/ UnrefDevice(u, d) \/ OpenBegin(u, d)
       \/ \E v \in Users : HandOver(u, v, d)
  \/ FreeDevice(u)
  \/ RegisterCallback(u) \/ DropCallbacks(u)
  \/ \E k \in callbacks : DeregisterCallback(u, k)

DevSpec == DevInit /\ [][DevNext]_devVars

----------------------------------------------------------------------------

\* Users of the default context: those with a token for it, until the lock of
\* libusb_exit(); and the one that is making it.
DefaultUsers == {u \in Users :
  \/ token[u] # NoToken /\ token[u].ctx = default
  \/ step[u].at \in {"init_named", "init_default"} /\ step[u].ctx = default}

(* No thread loses its context to another one: what a thread initialised   *)
(* and has not exited is allocated and initialised, whichever of the       *)
(* sharers of the default context leaves first and whichever init fails.   *)
ContextAlive ==
  /\ \A u \in Users : token[u] # NoToken => token[u].ctx \in ready
  /\ \A h \in handles : h.ctx \in ready
  /\ \A k \in callbacks : k.ctx \in ready

(* default_context_refcnt counts the users of the default context, and     *)
(* init_count, asserted non-zero by op_exit(), the contexts with a backend. *)
ContextCountsExact ==
  /\ default # None => defRefs = Cardinality(DefaultUsers)
  /\ default = None => defRefs = 0
  /\ initCount = Cardinality(ready)

\* Calls in progress that hold a reference to d of their own.
Opening(d) == {u \in Users : In(u, "open") /\ step[u].dev = d}

(* dev->refcnt counts the handles and references there are, and a device   *)
(* is freed once, by the one that dropped the last.                        *)
DeviceRefsExact ==
  \A d \in 1..made.devices :
    /\ refs[d] = Cardinality({h \in handles : h.dev = d})
               + Cardinality({a \in appRefs : a.dev = d}) + Cardinality(Opening(d))
    /\ d \in freed => refs[d] = 0
    /\ Cardinality({u \in Users : In(u, "free") /\ step[u].dev = d}) <=
         IF refs[d] = 0 /\ d \notin freed THEN 1 ELSE 0

(* The counters that decide what is freed are exact, those of contexts and *)
(* those of devices, whichever call fails half way.                        *)
CountersExact == ContextCountsExact /\ DeviceRefsExact

=============================================================================
