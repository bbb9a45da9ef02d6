# ebc-sdr-native in TLA+

A verification development kept beside `ebc-sdr-native`: the RTL-SDR driver
(`rtl-sdr/`), the Android bridge (`android/`) and the patched libusb 1.0.23
(`libusb-andro/`) that three Android apps link. Every definition is translated
from the C source; `PROJECT.json` names the lines behind each one, what each
run checks, which mutation of the code each property catches, and the hazards
the properties are for.

* [The system](#the-system): components, state, interactions, what is hard
* [The modules](#the-modules) and how they correspond to the code
* [The runs](#the-runs), their bounds and the fairness they assume
* [Findings](#findings): where the code disagrees with its own documentation
* [The proofs](#the-proofs)
* [What is left out](#what-is-left-out) and [the plan](#the-plan)

## The system

An app hands a USB file descriptor to `rtlsdr_open2()`. It then calls
`rtlsdr_read_async()` on a reader thread, which submits `xfer_buf_num` bulk
transfers and sits in libusb's event loop. libusb reaps completed URBs from the
kernel and calls `_libusb_callback()`, which hands the samples to the app and
submits the transfer again. A second thread tunes, and stops the stream with
`rtlsdr_cancel_async()` or `rtlsdr_cancel_async_save()`, and tears everything
down with `rtlsdr_close()`. The dongle may be pulled at any moment: on Android
this is the normal end of a session.

| Component | State | Operations | Correct when |
|---|---|---|---|
| Asynchronous streaming, `librtlsdr.c` 1750–2119 | `async_status`, `async_cancel`, `dev_lost`, `xfer_outstanding`, `xfer_errors`, the transfers | `rtlsdr_read_async`, `_libusb_callback`, `rtlsdr_cancel_async` | the counter is exact, nothing in flight is freed, every stop and every unplug ends the run, the device can be streamed from again |
| Open and close, Android bridge, `librtlsdr_andro.c`, `librtlsdr.c` 1665–1728 | the device, its context and handle | `rtlsdr_open2`, `rtlsdr_cancel_async_save`, `rtlsdr_close` | close never overtakes the reader, calls return, an error on the way undoes what was done |
| libusb transfers, `io.c`, `os/linux_usbfs.c`, `sync.c` | `flying_transfers`, per-transfer flags and locks, URBs in the kernel, device references | submit, cancel, time out, reap, complete, disconnect, close | one callback for each submission, with the status that says what happened; no URB outlives its transfer; references balance |
| libusb event handling, `io.c`, `poll_posix.c`, `threads_posix.c` | event lock, waiters, `event_flags`, `device_close`, event pipe, poll set | handle events, wait for events, interrupt, add and remove descriptors | no wake-up is lost, a close gets its turn, nobody polls a closed descriptor |
| libusb core, `core.c`, `os/linux_usbfs.c` | contexts, devices, handles; claimed interfaces, kernel drivers, the cached configuration | init, exit, wrap, open, close, reference; claim, release, alternate setting, reset, configure | nobody loses a context to somebody else, counters are exact, a device is freed once; the claimed bits say what the kernel says, drivers come back |
| Descriptors, `descriptor.c`, `os/linux_usbfs.c` 530–720 | the cached descriptor file, the parsed trees the application holds | parse, walk, free | a parser stays within its buffer and what it allocates is freed once, whatever a device writes and whichever `malloc` fails |
| Hotplug, netlink, `hotplug.c`, `linux_netlink.c` | the callback registry | register, mark, drop | no callback outlives its context |
| Demodulator and tuning, `librtlsdr.c` 470–1260 | `freq`, `rate`, `corr`, `offs_freq`, `direct_sampling`, the I²C repeater, demodulator registers | set frequency, rate, correction, gain, direct sampling, offset tuning | device and `struct rtlsdr_dev` agree, the repeater is closed again, numbers do not overflow |
| EEPROM, USB strings, GPIO | the EEPROM's contents, the pins | read, write, parse strings, bias tee | only what was asked for is written, the strings come from inside the image, the antenna gets voltage only when somebody asked |
| Tuners, `tuner_*.c` | shadow registers, PLL state | init, tune, gain, standby | PLL numbers are in range and close to what was asked for |

They interact by calls downward (app, librtlsdr, libusb, usbfs), by callbacks
upward out of `libusb_handle_events*`, and through memory that several threads
read and write without a lock: every field of `struct rtlsdr_dev` named above.
Inside libusb the shared state is behind four kinds of lock (`events_lock`,
`event_waiters_lock`, `flying_transfers_lock` and one lock per transfer, plus
`open_devs_lock`), and most of what can go wrong is in the windows between
them.

What makes it hard: the reader, the app's threads and the kernel interleave
freely; a transfer may complete, time out, be cancelled and be disconnected at
once; teardown is bounded by time rather than by synchronisation; a synchronous
control request of one thread may run another thread's callbacks; and after an
unplug everything still has to end. `PROJECT.json` lists each hazard at its
line.

## The modules

| Module | Models | Extends or instances |
|---|---|---|
| `AsyncStream` | one streaming run after another, two threads and the kernel | |
| `StreamContract` | what one `rtlsdr_read_async()` promises, without threads or counters | |
| `AsyncStreamMC` | surroundings for TLC, the refinement mapping to the contract | `AsyncStream`, `StreamContract` |
| `AsyncStreamProofs` | theorems | `AsyncStreamMC` |
| `UsbTransfer` | the transfers of one device handle | |
| `UsbTransferMC` | surroundings for TLC | `UsbTransfer` |
| `UsbTransferProofs` | theorems: locks, lists, callbacks, memory | `UsbTransfer` |
| `UsbOutcomeProofs` | theorems: what is reported, and when | `UsbTransferProofs` |
| `EventLock` | threads that share the handling of events | |
| `EventLockProofs` | theorems | `EventLock` |
| `ControlBus` | control transfers, the demodulator's registers, the I²C repeater, failing transfers | |
| `TunerR82xx`, `TunerE4k` | the drivers of the R820T/R828D and of the E4000 | `ControlBus` |
| `TunerFc001x`, `TunerFc2580` | the drivers of the FC0012/FC0013 and of the FC2580 | `ControlBus` |
| `DeviceControl` | open, close and the settings of librtlsdr | the tuners |
| `DeviceControlProofs` | theorems | `DeviceControl` |
| `DeviceControlMC` | the crystals of the dongles and the plans, for TLC | `DeviceControl` |
| `Descriptors` | the descriptor parser and its memory | |
| `DescriptorsProofs` | theorems | `Descriptors` |
| `UsbInterfaces` | interfaces, kernel drivers and configuration of one handle | |
| `UsbDevices` | life of contexts, devices, handles, hotplug callbacks | |
| `UsbCoreProofs` | theorems | `UsbInterfaces`, `UsbDevices` |
| `Board` | EEPROM, strings, GPIO pins, bias tee | |
| `BoardProofs` | theorems | `Board` |
| `ComponentsMC` | the four above for TLC, one scene each | all four |

The first three models cut the streaming path at the seams of the code. `AsyncStream` sees
libusb by what librtlsdr relies on: a submitted transfer is in flight until its
callback has run, and callbacks run only while some thread handles events.
`UsbTransfer` justifies the first half (`OneCallbackEach`, `FlyingExact`,
`UnplugEndsTransfers`), `EventLock` the second (a single handler at a time, and
everybody else is woken). `DeviceControl` and the modules below it are the
control path, sequential code whose hard part is the order of the calls.

### AsyncStream

The variables of the first line are the fields of `struct rtlsdr_dev` of the
same name; `phase`, `result` and `status` say of each transfer what libusb, the
kernel and `transfer->status` say of it. `pc` walks the reader through
`rtlsdr_read_async()`: entry and BUSY check, reset of the counters, submit
loop, event loop, and on every pass the test of `async_cancel` and `dev_lost`
with the cancellations, then the final drain (`DrainTries` passes, 100 in the
code) and the free or leak of the buffers. `apc` walks the application's
thread through the three calls. A callback is one step of whichever thread
handles events, because libusb calls it with the event lock held; every access
to a field that the two threads race on is a step of its own, the test and the
two writes of `rtlsdr_cancel_async()` in particular.

`Env` names what the surroundings may do; a run lists it. Leaving a behaviour
out restricts what is claimed:

| Behaviour | When it is left out |
|---|---|
| `wait_expires` | `rtlsdr_close()` and `_save` are long enough (2 s): the code says that it closes anyway |
| `close_during_start` | close is not called between the reader's entry and its write of RUNNING |
| `restart_after_leak` | a device whose transfers were leaked is closed, not streamed from again |
| `xfer_error` | no transfer ends in ERROR, STALL or OVERFLOW on a device that is present |
| `event_error` | `handle_events` does not fail |

The first three are left out of `Sound`. With `LeakAndRestart` in place of
`Sound` TLC shows how a run after one that leaked resets the counter that the
leaked transfers' callbacks still decrement, and frees transfers in flight
(`librtlsdr.c` 1969); with `CloseAtStart`, how a `rtlsdr_close()` during the
entry of `rtlsdr_read_async()` sees INACTIVE and closes under the reader (1676). Known behaviour
of the code that the properties leave room for: a `rtlsdr_cancel_async()` that
is late writes `async_cancel` into the next run (line 2114), so that run stops
at once; the value returned may be the NOT_FOUND of a last cancellation pass
(2037), therefore `FailedStartReported` only says that it is not success;
`dev_lost` is also set by errors on a device that is present (1789); after an
error of `handle_events` the status is still RUNNING, and the drain re-arms
what it cancels (2018), hence `NoEventErrors` in the run of the contract.

### UsbTransfer

`E` is the thread that holds the event lock; `Callers` are the application's
threads. `x[t]` holds the fields of `struct usbi_transfer` and
`linux_transfer_priv` (`flags`, the timeout's flags, `retired`, `reap_action`,
`reap_status`, whether `urbs` is allocated); `flying`, `fl` and `tl` are
`flying_transfers` and its two kinds of lock; `queued` and `done` are the
kernel's URBs. A thread's `pc` is its place in `libusb_submit_transfer()`
(list, enlist, one URB at a time, submitted, undo), in
`handle_timeouts_locked()`, in `reap_for_handle()` and the completion (remove
from the list, clear IN_FLIGHT, callback, unref), in
`usbi_handle_disconnect()`, or waiting in `sync_transfer_wait_for_completion()`.
`held`, `accepted`, `refs` are what the properties compare with: submissions
without a callback yet, who cancelled with success, and references.

Abstracted: a `discard_urbs()` call is one step, and the URBs it discards come
back last first; the kernel ends the URBs of a transfer in order otherwise; an
overflow only happens in a last URB (the comment at `linux_usbfs.c` 2522);
only synchronous control transfers have timeouts, as in librtlsdr; a transfer
is submitted by one thread at a time; the event lock's own protocol is left to
`EventLock`; buffers and lengths are only full or short. Freed URBs that the
kernel still has are marked not fresh.

### EventLock

One place of `pc` for each step of `libusb_handle_events_timeout_completed()`,
of the waiters' protocol, and of `libusb_close()` and `libusb_open()` as far
as they touch the poll set. `event_data_lock` is only held over assignments
and appears as the atomicity of a step. A transfer is a `request` that some
thread has to fetch. `Notify` and `Settle` are the pattern that appears five
times in the source: write the pipe for the first reason to interrupt, read it
when none is left.

Abstracted: recursive event handling (refused with BUSY), hotplug messages and
`completed_transfers` (unused by this backend), applications that poll
themselves. Opening and closing happen on threads that do not handle events at
that moment, as in librtlsdr and the bridge; a handle is closed when no request
on it is pending. `libusb_close()` from a callback, which `core.c` 1503
provides for, would block on `open_devs_lock`, which `op_handle_events()`
holds (`linux_usbfs.c` 2825) and `do_close()` takes (`core.c` 1466); it is
listed as a hazard.

### ControlBus, the tuners and DeviceControl

One API call is one step: the application makes its calls one at a time, and
the code behind them is sequential. Its functions are operators from state to
state. The record `s` holds the fields of `struct rtlsdr_dev` and of the tuner
drivers (`freq`, `rate`, `bw`, `corr`, `offs`, `ds`, `mode`; `shadow`, `intf`,
`input`, `lock`), what the hardware holds (`chip`, `ifr`, `zif`, `inv`, `adc`,
`swap`, `rep`, `gpio5`), and `rc`, the result of the last function. `Then`,
`OrRc` and `Keep` are the three ways the C code goes on after a result: return
on failure, or the results together, drop the result. Each transfer counts
`s.n`; the `s.fault.at`-th of a call fails, alone ("once") or with all after it
("lost"), so that a call may fail at any place of its code.

`rtlsdr_set_center_freq()` and `_rtlsdr_set_direct_sampling()` each end by
calling the other. `Center` is the first up to that call, which it leaves
pending in `turn`, `Switch` the second with the tuning it ends with, and `Again`
one more round. Calls follow two more rounds and `deep` marks a state that
would need a third: `RecursionBounded` says that there is none, so the bound
loses nothing.

Frequencies and rates are in kHz. Tuner registers are grouped by what is
written together (`Regs`); a value is what it means, a filter its width, the
PLL the frequency that comes out of it, computed with the crystal that is on
the board and not the one the driver believes in. Abstracted: the second try of
the PLL lock and of the calibration, register values, gain tables (E4000: only
the test that a gain is in the table), the several byte writes of one
demodulator value, and the unread bits of a GPIO register whose read failed.
An E4000 is only run without faults: what it writes after a failed read is
not modelled. IF gain, test mode, AGC mode and crystal override are left out;
the bias tee is `Board`'s.

What a dongle is put through is a *plan*: its tuner, the values of each
setting, and the faults. `DeviceControl` takes the set of plans as a constant,
so that one run covers every tuner, each with the values that matter for it.
The FC0012 and FC0013 compute their PLL from the corrected crystal on every
tuning and stop at the first failing transfer; `FcSetPll` has their search for
the multiplier, the two counters and the sigma-delta word with the widths of
the C variables. The FC2580 makes every write whatever became of the one
before, reports a failure as 1, and uses a crystal of its own.

### Descriptors

A descriptor file is a sequence of descriptors with lengths and types and the
number of bytes that are there; parsing it is a pure function to a tree's
counts, the blocks it allocated, and the bytes it read. A *heap* counts blocks
live, lost and freed twice, and one allocation may fail. A call of the
application is one step (get by index, by value, the active one, BOS,
companions, free), but the configuration may change between the calls. A loop of
the parser is a recursive function of the number of rounds made, and one
operator is its body (`NextEndpoint`, `AltLoop`, `NextInterface`); the loops
that only skip descriptors are a minimum. `DescConstants` says what a file is
made of: descriptors whose fields are bytes, in any order and number.

### UsbInterfaces

One handle, any number of threads, one place of `pc` for each ioctl and each
lock and unlock of `libusb_claim_interface()`, `libusb_release_interface()`,
`libusb_set_interface_alt_setting()` and `libusb_reset_device()`, whose first
loop reads `claimed_interfaces` without the lock. Detaching a driver is two
ioctls everywhere (`UsbfsDrives`, `disconnect`): in
`libusb_detach_kernel_driver()`, which takes no lock, and in a claim or reset on a
kernel without disconnect-and-claim (`oldKernel`), under the lock. Setting and
reading the configuration are an ioctl and a store (`SetConfigIoctl`,
`GetConfigIoctl`, `ConfigCache`), also without a lock; the read may fail, which
stores -1 and is no error of the call, and the set may fail half way.

The kernel (`owner`, `present`, `config`) is external, modelled by what the
ioctls answer; two answers are those of Linux rather than of this code: an
alternate setting chosen for an interface that nobody drives binds usbfs to it,
and a configuration that cannot be set may leave the device without one. Transfers
and `libusb_clear_halt()` on an interface that is not claimed bind it in the
same way and are not made here.

Three history variables remember what excuses a later disagreement: `seen`,
`snatched` (the interfaces a disconnect took from usbfs, each until it is claimed
again) and `stale` (the answer that is or will be cached is known to be wrong; a
later call that nothing overtakes clears it).

### UsbDevices

Threads use the library as its documentation asks. `libusb_init()` holds
`default_context_lock` over three steps that may fail (allocation, backend, event
pipe); `libusb_exit()` reads the default context *before* it takes the lock.
A reference that is dropped is one step, the free that follows another.
`token` is the initialisation a thread has not undone, `refs` and `freed` are
`dev->refcnt` and whether `libusb_unref_device()` freed.

### Board

The EEPROM's cells and address counter, the two GPIO registers, and one step
for each control transfer of `rtlsdr_write_eeprom()`; any transfer may fail,
one that writes with or without having written. A register read that fails
yields any value, because `rtlsdr_read_reg()` returns what its buffer held.
`before` collects what a cell may rightly hold, `wanted` whether the bias tee was
asked for.

## The runs

Every property has a mutant in `PROJECT.json`: a mutated definition, kept in
the module before the one it replaces, under which the property is violated.

| Run | Instance | Question |
|---|---|---|
| `AsyncSafety` | 2 transfers, 2 runs, 1 fault, `Sound` | Is `xfer_outstanding` exact, is nothing freed in flight or closed under the reader, is a failed start reported, does a run leave INACTIVE behind? |
| `AsyncContract` | the same, without event errors | Does the code with its callback and cancellers implement `StreamContract`, including that a stopped run ends? Does the drain never re-arm? |
| `AsyncLive` | 2 transfers, 1 run, 1 fault, no transfer errors | Does an unplug end the run with no call of the app, do the app's calls return, is a waiting reader never out of transfers? |
| `UsbSync` | 2 callers, 2 control transfers | Under timeouts run by either thread: is the reported status what happened, is no transfer freed that somebody needs? |
| `UsbStream` | 1 caller, 1 bulk transfer of 3 URBs | Under refused, short, failed and discarded URBs: do list, flags, callbacks, references and URBs agree, is the disconnect final? |
| `UsbLive` | 1 bulk, 1 control transfer | Does an unplug end every transfer, does every call return, with a kernel that need not complete anything? |
| `EventLock` | 1 loop, 1 requester, 1 opener, 2 handles | Is the pipe exact, nothing closed polled, no wake-up lost, does a close get its turn, an answer its caller, an unplug its notice? |
| `Control` | 9 dongles in 12 plans, 3 frequencies each, up to 2 rates, widths, gains, corrections; in three plans one failing transfer or an unplug at any place | After any sequence of calls: is the hardware centred on the frequency the driver reports, in the mode and with the correction it reports, is the repeater used as it must be? Does the mutual recursion end, is a lost dongle told? |
| `Components` | four scenes: 286 descriptor files, each with no allocation or one of four failing, 2 calls; 2 threads, 2 interfaces, 4 calls; 2 threads, 2 contexts, 1 device, 2 handles, 1 callback; an EEPROM of 4 bytes, 2 pins, 1 fault, 3 calls | Is every block freed once and none read outside its buffer? Do the claimed bits agree with the kernel, do drivers come back, is the cached configuration the device's? Does everybody keep their context, is every counter exact? Is the EEPROM as written, the bias tee off unless asked for, the strings inside the image? |

and three runs that end in a violation, see below.

Bounds. Two transfers are enough to have one in flight, or failed, while
another is at a different stage, and the counter different from both 0 and
`N`; the proofs cover every `N`. `DrainTries` = 1 lets the drain succeed and
run out. Two runs are needed for what one leaves to the next; a third would
start from the states of the second. Three URBs have a first, a middle and a
last one, which the completion treats differently. Two control transfers and
two callers let each run the other's timeouts. In `EventLock` three threads
are a holder, a waiter and a closer, and two handles one that is polled and
one that is opened while others poll; the proofs cover every number, and the
invariants were also checked with two threads that open and close.
`MaxFaults` and `MaxUnplugs` bound failures and unplugs. No symmetry is used.
The frequencies of `Control`, for an R82xx, lie below the 24 MHz at which an R820T changes
mode (and below the V4's 28.8 MHz), in the V4's middle band, and above the
345 MHz at which an R828D changes its input; the rates choose different
channel filters and IFs. Those of the other tuners reach each of their bands and one
that an FC0012 refuses. In the plans with faults the failing transfer is one of
the first 40 of a call.

In `Components` a scene leaves the other three components where they began:
they share no state, so their interleavings would tell nothing. The descriptor
files are all bodies of up to two of seven kinds of descriptor, with a
configuration cut short or not, and thirteen longer ones that reach every exit of
the parser; of the allocations the second, third, fifth or eighth fails. Two
threads with four calls overlap a claim, a release or a reset with any other;
two users of contexts share the default one, fail to make it, and exit while the
other initialises; the proofs cover every number. An EEPROM of four bytes has
the bias tee's byte, a length that may be too large, and room for two
characters; its proofs cover every size.

Fairness. A thread inside a call keeps running: weak fairness of the reader
and of the application's thread in `AsyncStream`. In `UsbTransfer` and
`EventLock` threads compete for mutexes that are held over a few instructions,
and strong fairness says that a thread that tries again and again gets one;
the one lock that is held long, `events_lock`, is not given that help in
`libusb_close()` (only weak fairness), since that is what `device_close` is
for. Nothing is assumed of the kernel, of the plug, or of the application's
next call, and neither `poll()` nor a wait on a condition is assumed to time
out, so what holds does not depend on the 60 s and 1 s timeouts in the code. A
control transfer's own timeout does expire.

Deadlock is checked in all runs but `Control`, where everything may end
with a closed handle of a dongle that is gone, and `Components`, whose
scenes end when the bounded number of calls is made; `Rest` is the stutter of an
application that makes no further call. These two state no liveness.

## Findings

| Run | Property | What the code does |
|---|---|---|
| `AsyncCancelRace` | `QuietIsInactive` | `rtlsdr_cancel_async()` tests RUNNING and writes CANCELING in two steps; the run may end in between, and the status stays CANCELING for good, which `CHANGELOG.md` 50 says it no longer does |
| `AsyncStall` | `UnplugEndsRun` | transfers that end in STALL, OVERFLOW or single ERRORs are not submitted again; with none left the run stays RUNNING and an unplug is not noticed (`CHANGELOG.md` 35) |
| `UsbStallSplit` | `ReapedIsAwaited` | a stall on the first of several URBs discards the others last first; the last one is taken for the end of the transfer, and `urbs` is freed while one is still to be reaped (`linux_usbfs.c` 2562 says that it waits) |

While modelling the following showed; no run states them, the
properties leave room for them where said:

* Leaving direct sampling, which an R820T does by itself when it is tuned back
  above 24 MHz, initialises the tuner: channel filter and gain return to the
  driver's defaults while `dev->bw` and `dev->gain` keep their values. The usual
  order open, sample rate, frequency already does it, because
  `r820t_set_bw()` tunes to frequency 0 first (`librtlsdr.c` 215, 1170).
* `rtlsdr_set_direct_sampling(dev, 0)` on an E4000 with offset tuning on writes
  IF 0 while the tuner stays offset (1181); `Centred` excludes it (`mixed`).
* `r82xx_set_pll()` leaves its search with `mix_div` 128 and `div_num` 0 for an
  LO below 27.66 MHz, a frequency between 24 and about 24.1 MHz with IF
  3.57 MHz, more with a narrow filter: the PLL locks 64 times too high
  (`tuner_r82xx.c` 488). At exactly 28.8 MHz a V4 switches its upconverter in
  (1163, `<=`) but tunes without it (1135, `<`). `InRange` excludes both.
* One failed EEPROM read at open makes a Blog V4 use the 16 MHz crystal of other
  R828D sticks (`librtlsdr_andro.c` 205, 283); such an open is not `clean`.
* The FC2580's driver reports a failure as +1, which
  `rtlsdr_open2()` takes for success (`librtlsdr_andro.c` 323, `r < 0`). It also
  computes with a crystal of its own, so a correction never reaches it
  (`tuner_fc2580.c` 15); `CorrectionApplied` is not stated of it.
* The VCO frequency of the FC0012 is computed in 32 bits and wraps for what is
  above its range; the search for the counters then fails or tunes elsewhere
  (`tuner_fc0012.c` 206).
* `usbi_reallocf()` frees the array of alternate settings when it fails, and
  `clear_interface()` then frees it again through the old pointer
  (`descriptor.c` 231). `parse_configuration()` that stops at an interface
  without settings forgets the array allocated for it (473). An interface may
  say that it has endpoints while its array is NULL, against `libusb.h` 622.
  `MemoryExact` leaves room for these three.
* A reset that the kernel refuses leaves `claimed_interfaces` as it was while the
  interfaces are given up (`linux_usbfs.c` 1658). An alternate setting chosen
  while another thread releases the interface leaves it bound and unmarked
  (`core.c` 1797). `ClaimsAgree` excludes them by `seen`.
* `libusb_detach_kernel_driver()` compares the driver's name and disconnects it in
  two ioctls without a lock (`linux_usbfs.c` 1805, 1809). A claim by another
  thread in between is undone while its bit stays set, and the detach succeeds,
  where `core.c` 2007 says that libusb's own driver is not detached.
  `ClaimsAgree` excuses the interface by `snatched`.
* `priv->active_config` is stored after the ioctl and without a lock: of two
  threads that set or read the configuration the one that is late stores an
  answer of before the other's change (`linux_usbfs.c` 956, 967, 1557). A
  GET_CONFIGURATION that fails stores -1 and returns `LIBUSB_SUCCESS` (957-964), so
  `libusb_get_configuration()` says 0, unconfigured, where `core.c` 1571 says that
  it returns an error code; the descriptors of the active configuration are then
  not found until the next call succeeds. `ConfigCached` excludes them by `stale`.
* `rtlsdr_write_eeprom()` drops the results of the address and of the read-back:
  a byte may be taken for written (`librtlsdr.c` 779). A GPIO register whose
  read fails is written back with whatever the buffer held, and a failed write
  is not reported. `rtlsdr_read_eeprom()` returns 1 on success, while
  `rtl-sdr.h` 143 says 0.
* An unplugged E4000 tunes with success: a failed read of the lock register is
  -1, whose lowest bit says locked (`tuner_e4k.c` 593), and an FC2580 reports its
  failures as 1. `UnplugTold` is therefore only stated of the other tuners.

A bulk transfer is split into several URBs when its buffer is larger than one
URB may be (16 KiB, or more with `USBFS_CAP_BULK_SCATTER_GATHER` and
`NO_PACKET_SIZE_LIM`).

## The proofs

`AsyncStreamProofs`, for every number of transfers and all bounds, under
`SoundEnv` (the first three behaviours of the table above do not happen):
`TypeCorrect`, `CounterExact` (`OutstandingExact`), `FreeIsSafe`
(`NoFreeInFlight`) and `CloseIsSafe` (`NoCloseUnderReader`). The counter is
exact because every callback of the run decrements it once and no callback of
an earlier run can: `NoStrangers` says that leaked transfers exist only while
no run is active. The submit loop fills the slots in order (`SlotsInOrder`),
so that a submission always adds one. For the close, `CloserKnows` says that a
thread inside `rtlsdr_close()` has a reader that is either past its start or
gone, and `StatusTellsRun` that INACTIVE is only read before a run has armed
the status. `EndsInactive` (`RunEndsInactive`) follows from the counter: what is
leaked is exactly what is still outstanding. `StartFailureHeard`
(`FailedStartReported`) rests on the order of the slots: after a failed
submission the cancelling pass ends on a slot that was never submitted
(`BreaksAtTail`), whose NOT_FOUND is the result (`BreakHeard`).
`DrainRearmsNothing` (`DrainNeverRearms`) also assumes that `handle_events` does
not fail in the reader. `FlowsAlways` (`StreamNotStalled`) assumes that no transfer
ends in an error, which is what `AsyncStall` needs for its counterexample: a transfer
then leaves a running stream only through a callback that ends the run, a
cancellation of a run already ended, or with the device (`FlowInv`). `Simulates` is the safety half of `MeetsContract`: under
the refinement mapping of `AsyncStreamMC` every step is a step or a stutter of
`StreamContract`.

`UsbTransferProofs`, for any threads, transfers, number of URBs and kernels, as
long as no transfer is submitted that already is (`SingleUse`; libusb answers
that with BUSY, which `UsbLive` covers): `TypeCorrect`, `LocksAlways`,
`FlyingAlways`, `OneCallbackAlways`, `DisconnectAlways`, `NoUseAfterFreeAlways`,
and, for finitely many transfers, `RefsAlways`. The invariant follows the URBs: one
that still carries its transfer (`fresh`) has one that waits for it, in flight or
inside its submission (`FreshInv`), so that the completion `E` is about to handle
finds its transfer in flight and runs a callback that is due (`HeldInv`). It
holds because the three places that drop `tpriv->urbs` leave no fresh URB: a
refused first URB had none before it, a control transfer has one URB
(`ControlOnce`), and the others clear the usercontext of those still out
(`FreesUrbs`). `ListInv` says that whatever is on the list is in flight or being
submitted, `ScanInv` that what the disconnect has still to find is among what it
has still to look at. What `discard_urbs()` leaves behind
(`Discards`, `DiscardFresh`) is proved for any number of URBs, by giving the
discarded ones a rank.

`UsbOutcomeProofs`, also under `SingleUse`, goes on from there to what the callback
hears. `UrbInv` says where an URB is: with the kernel or among the results, once
(`Apart`), and what its status tells (`Told`). `Step` sorts the actions into those that
matter to the reports and the others (`Calm`), so that each invariant is shown
against those alone. `CancelReportedAlways` (`CancelIsReported`)
then follows who cancelled a transfer through its state: an accepted cancel has set
the reap action to CANCELLED, which nothing resets before the callback, and an
accepted timeout has set TIMED_OUT or is about to (`CancelInv`); conversely neither
is there without a cancel, and the last URB of a transfer nobody cancelled keeps it
NORMAL. `ReapedAlways` (`ReapedIsAwaited`) counts: the URBs that are out and those
retired make up what was submitted, and while the state is NORMAL the results keep
the order of the submission (`AwaitInv`). It needs `StallEnds`: no endpoint whose
transfers are split into several URBs stalls. That is not a convenience: without
it the property is false, which is what `UsbStallSplit` shows; with it, short
reads, cancels, timeouts, refused URBs and unplugs are all covered, for any
number of URBs.

`EventLockProofs`, for any number of threads and handles, from
`EventConstants` alone: `TypeCorrect`, `PipeIsExact`, `NoLostWakeup`
(`SleeperHasWaker`) and `ClosedNeverPolled` (`ClosedIsNotPolled`). `LockInv`
ties each lock to the places in the code that hold it; `CloseCount` says that
`device_close` is the number of threads inside `libusb_close()`, therefore a
waiter that goes to sleep because it read it as positive has a closer who will
broadcast; `DevInv` says that a handle is opened or closed by one thread at a
time; `FdInv` that the array given to `poll()` is the set of polled
descriptors unless `POLLFDS_MODIFIED` says otherwise. `SleepInv` strengthens
`SleeperHasWaker` to threads that have decided to sleep and still hold the
waiters' lock. All of these were checked by TLC before they were proved.

`UsbCoreProofs`, for any number of threads, interfaces and configurations:
`ClaimsAgreeAlways`, `ConfigCachedAlways`, `DriverReturnedAlways` and
`IfaceTypeCorrect`. `ClaimsAgree` speaks of the moments when no call is
running; in between the bits and the kernel do disagree. The inductive
invariant says who answers for a disagreement: an interface bound but not
marked has a thread about to mark it (`Bound`), one marked but not bound has a
thread about to unmark it, or a reset that gave it up and will come back for it
(`Marked`, `Answers`). The reset's first loop runs without the lock, so a release
and a claim by other threads may pass it; the second loop, under the lock, takes
back whatever is marked by then, which is why the answer holds. The two ioctls of
a detach, on the application's own account, ask nobody: what they take from usbfs
is `snatched`, and `Had` is what a marked interface can rely on, to be bound or to
have been taken so. `ConfigInv` says that, unless `stale`, whatever is still to be
stored is the device's configuration (`Holding`), and the cache is once nothing is.
For `DriverReturned` the invariant adds who answers for an interface without its
driver (`DriverInv`): on an old kernel a claim that has detached it and not yet
bound it, and no release clears a mark before the driver is back; what excuses a
driver that stays away is never forgotten (`Undisturbing`).

The same module, for any number of threads, contexts, devices, handles and
callbacks: `ContextAliveAlways`, `CountersExactAlways` and `DevTypeCorrect`. A
context that is being made or torn down is referred to by nothing but the call
that does it (`Alone`); a context other than the default one has one holder
(`TokenInv`); the default one is ready, or being made by the holder of
`default_context_lock` (`DefaultInv`), so that a thread that takes a share of it
finds it whole. For the devices, a thread that is about to free one has seen its
count reach zero, and nobody else has (`FreeInv`); what refers to a device
keeps its count above zero.

`BoardProofs`, for every size and content of the EEPROM, every offset and
length, all pins and any failures: `EepromExactAlways`, `BiasTeeAlways`,
`StringsAlways`. While a write met no failure, the bytes before the current one
are in place and the address counter points at it when it is read back (`Done`).

`DeviceControlProofs`, for any set of plans: any dongle, frequencies up to 2 GHz,
rates up to the 3.2 MHz that `rtlsdr_set_sample_rate()` takes, any widths, gains
and corrections, any transfer of a call that fails, and any number of calls. It
proves `ModeAgreesAlways`, `CorrectionAppliedAlways`,
`RepeaterDisciplineAlways`, `RecursionBoundedAlways` and `UnplugToldAlways` from
one invariant of the state between calls, `ControlInv`, and `CentredAlways` from a
second one, `CentreInv`. Only the second needs to know the crystals: `CrystalsFit`
says that a board has those `rtlsdr_open2()` takes it for, 16 MHz on an R828D and
28.8 MHz elsewhere. The properties are not
inductive by themselves: that the tuner wakes up on the way back from direct
sampling depends on its driver writing the power register, which an R82xx skips
when the shadow register says that it is not needed. `Tame` therefore says that
the shadow is what the chip holds, and `ControlInv` that an application that has
seen no error has a driver that is `Tame`, on the path of its mode (`Path`), with
a tuning that used the correction in force (`Right`).

A call is one step and a chain of some hundred register accesses, so most of the
proof is about operators. Every operator has a lemma of the same three parts: the
fields it may write (`Only`, `Steers`), what it leaves when no transfer fails
(`Calm`, `Live`), what it returns when the dongle is gone (`Dead`). They are composed in
the order of the code: an access, a register write with its shadow (`Mirrors`), a
driver's function (`Tunes`), a function between two switches of the repeater
(`Bracketed`), a tuning (`ApplyDone`, `CenterDone`), a switch of the mode, then
each call (`Carries`). The mutual recursion of tuning and switching ends because
a round tunes to the frequency the one before has noted, whose mode is then in
force already, or to 0 if that one failed, and from then on only to 0 (`Aimed`,
`AgainDone`, `RoundsDone`): that holds whatever transfers fail, which is why `RecursionBounded` has no `Healthy`.
For this proof the operators are written without folds, whose results the provers
cannot see; the runs count the same states.

`Centred` says where the received band is, which no single call decides. The LO is
set by a tuning, the IF by a rate, a bandwidth or a mode, the offset by another
call, each of which calls the others for what it has changed; a call that forgot
one leaves the band beside the frequency in use. `CentreInv` is therefore about
all of them at once (`Fit`): the demodulator's IF is the tuner's, or the offset
(`Plumb`); the LO, the input and the band filter are those of the frequency in use
less the offset (`TunedTo`); with direct sampling the demodulator itself is
tuned, and no offset is set (`Aligned`). The proof goes through the calls a second
time. Most operators leave what decides on the band alone (`Hears`); the others
bring about a part of it: `TuneReady`, `RateReady`, `BandwidthReady`,
`OffsetReady`, `CorrectionReady`, `GainReady`, `DirectReady`, `OpenAligned`. Under them is
the arithmetic: that for every frequency within range the search finds a divider
within the VCO's range, and that the PLL's words, truncated and wrapped as in C,
put the LO on the frequency (`Synthesiser` for the R82xx, `FcExact`,
`Fc2580Exact`); and that the IF of every filter of an R82xx stays small enough for
that (`FilterIf`). As in the run, a frequency outside the tuner's range
(`InRange`) may be tuned to at any time; nothing is claimed while it is in use.

`DescriptorsProofs`, for any set of descriptor files and answers, whichever
allocation fails, and any number of calls: `MemoryAlwaysExact`, from
`DescConstants` alone. What a parser computes is the result of a loop, and a
lemma says of each loop that the values it goes through stay within a set that
every round keeps to (`Rounds`; sums in the same way, `SumIs`). The provers know
a recursive function only as something chosen to obey its equation; both lemmas
first show that there is one, from the finite pieces of it, by induction for a
set, which needs no more than that a set of natural numbers has a least element.
Every parser then has a lemma of one shape (`Grows`): the heap after
it holds, beyond what it held before, the blocks of what was built, counted as the free
functions count them, or as before if the parser reports an error. They
follow the code upwards: `EndpointParsed`, `EndpointsParsed`, a round over the
alternate settings (`AltLoopDone`), `InterfaceParsed`, a round over the
interfaces (`NextInterfaceDone`), `ConfigurationParsed`, `ConfigHanded`, and
`BosParsed`. The counts are what is delicate: `bNumEndpoints` and
`bNumInterfaces` are lowered when the device sent less than it announced, and
the free functions go by the lowered ones. `DescInv` adds to `MemoryExact` what a
call knows between its two reads: that it owns one block (`CallKnown`), and, if
nobody selected another configuration meanwhile, that this block is large enough
for all of the configuration (`RoomKnown`). The second is what the other half of
`MemoryExact` needs: a file whose descriptors are all there is then parsed to
its end, and an altsetting that counts endpoints has an array of them. Like the property, the
theorem says nothing of the heap once a `realloc()` has failed (`dheap.bad`). TLC
checked `DescInv` on the scene of `Components` before it was proved.

Every safety invariant of the passing runs is now a theorem. Only model-checked:
everything with `~>`, and the liveness half of `StreamContract`. Liveness under
fairness and ENABLED are out of TLAPS's reach.

## What is left out

The components that `PROJECT.json` calls `not_modelled`, each with its reason.
Of the modelled ones: isochronous transfers and bulk streams (librtlsdr uses
neither), the timerfd (not compiled in this port), device enumeration and
netlink (compiled out) and with them the device lists, string descriptors
(they keep no state), IF gain, test mode, AGC mode, crystal override and FIR
(a write each), `fc0013_rc_cal_*` (nothing calls them), the error paths of
`rtlsdr_open2()` before its first transfer, and the data races on plain ints of
`struct rtlsdr_dev`, whose accesses are atomic steps here although C gives no
such promise.

## The plan

1. `AsyncStream`, its contract, runs and proofs. Done.
2. `UsbTransfer`, its runs and proofs. Done.
3. `EventLock`, runs and proofs. Done.
4. The control plane of librtlsdr with all its tuners. Done but for the settings
   named above.
5. libusb's contexts and devices, interfaces and configuration, hotplug
   callbacks, descriptor parsing; EEPROM and pins. Done.
6. Proofs: `UsbInterfaces`, `UsbDevices`, `Board`, the control plane, the step
   simulation of `StreamContract`, what is received after any calls
   (`Centred`), and what the descriptor parser builds and frees (`MemoryExact`).
   Done.

A run answers one question; later modules share runs, or replace one of the
runs above whose question a proof has settled.
